---- MODULE Spec2Model ----
(***************************************************************************)
(* Transfer processing and account ledger of sepa-instant-transfer-brl.    *)
(*                                                                         *)
(* The database is the pair (accounts, transactions) of committed rows.    *)
(* A request handler runs in its own SQLAlchemy session: every query reads *)
(* the committed rows at the moment it runs, the rows it loaded are cached *)
(* in the session (identity map), attribute assignments change only the    *)
(* cached objects, and db.commit() writes the changed attributes and the   *)
(* added rows in one database transaction.  The handler's steps are the    *)
(* stretches of code between two database round trips.                     *)
(*                                                                         *)
(* Money is an integer number of centavos (Numeric(15, 2) columns).        *)
(* Optional fields hold their falsy value when absent: 0 for an id, the    *)
(* empty sequence for a key, "" for a text.                                *)
(***************************************************************************)
EXTENDS Integers, Sequences, FiniteSets, TLC

\* ------------------------------------------------------------------ bounds

\* Concurrent request handlers (sessions).
NSessions == 2
\* Rows the transactions table may hold before requests stop being admitted.
MaxTx == 2
\* Calendar days the clock runs through.
MaxDay == 2
\* Accounts the account handlers create before requests stop being admitted.
MaxAccounts == 2

Sessions == 1..NSessions
Days == 1..MaxDay

\* ------------------------------------------------------------- characters

DigitChars == {"0", "1", "2", "3", "4", "5", "6", "7", "8", "9"}
LowerSeq == << "a", "b", "c", "d", "e", "f", "g", "h", "i", "j", "k", "l", "m",
               "n", "o", "p", "q", "r", "s", "t", "u", "v", "w", "x", "y", "z" >>
UpperSeq == << "A", "B", "C", "D", "E", "F", "G", "H", "I", "J", "K", "L", "M",
               "N", "O", "P", "Q", "R", "S", "T", "U", "V", "W", "X", "Y", "Z" >>
LowerChars == {LowerSeq[i] : i \in 1..26}
UpperChars == {UpperSeq[i] : i \in 1..26}
AlphaChars == LowerChars \cup UpperChars
HexChars == DigitChars \cup {"a", "b", "c", "d", "e", "f"}

\* int(c) for a decimal digit character.
DigitVal(c) ==
    CASE c = "0" -> 0 [] c = "1" -> 1 [] c = "2" -> 2 [] c = "3" -> 3
      [] c = "4" -> 4 [] c = "5" -> 5 [] c = "6" -> 6 [] c = "7" -> 7
      [] c = "8" -> 8 [] c = "9" -> 9

\* str(d) for a digit d.
DigitChar(d) == CHOOSE c \in DigitChars : DigitVal(c) = d

\* str.lower() on one character.
LowerChar(c) ==
    IF c \in UpperChars
    THEN LowerSeq[CHOOSE i \in 1..26 : UpperSeq[i] = c]
    ELSE c

Lower(s) == [i \in 1..Len(s) |-> LowerChar(s[i])]

\* re.sub(r'[^0-9]', '', s)
IsDigit(c) == c \in DigitChars
OnlyDigits(s) == SelectSeq(s, IsDigit)

\* sum(int(s[i]) * w[i]) over the first Len(w) characters (0-based i in the code).
RECURSIVE WeightedSum(_, _, _)
WeightedSum(s, w, n) ==
    IF n = 0 THEN 0 ELSE WeightedSum(s, w, n - 1) + DigitVal(s[n]) * w[n]

\* Mutant: the check digit is 11 - remainder whatever the remainder.
CheckDigit_Plain(sum_digits) == 11 - (sum_digits % 11)

\* 0 if remainder < 2 else 11 - remainder
CheckDigit(sum_digits) ==
    LET remainder == sum_digits % 11
    IN IF remainder < 2 THEN 0 ELSE 11 - remainder

\* The strings a pattern ending in $ is matched against: $ matches at the end
\* and just before a final newline.
DollarEnds(s) ==
    {s} \cup (IF Len(s) > 0 /\ s[Len(s)] = "\n" THEN {SubSeq(s, 1, Len(s) - 1)} ELSE {})

AllIn(s, from, to, class) == \A i \in from..to : s[i] \in class

\* ------------------------------------------------------------- validators

\* What a call gave: the value it returned, or the exception it raised.
Returned(v) == [raised |-> "", value |-> v]
Raised(e) == [raised |-> e]

validate_cpf(cpf_in) ==
    IF cpf_in = << >> THEN FALSE
    ELSE LET cpf == OnlyDigits(cpf_in)
         IN IF Len(cpf) # 11 THEN FALSE
            ELSE IF \A i \in 1..11 : cpf[i] = cpf[1] THEN FALSE
            ELSE IF DigitVal(cpf[10]) #
                      CheckDigit(WeightedSum(cpf, [i \in 1..9 |-> 11 - i], 9))
                 THEN FALSE
            ELSE DigitVal(cpf[11]) =
                      CheckDigit(WeightedSum(cpf, [i \in 1..10 |-> 12 - i], 10))

\* Mutant: the first weights fall from 13 to 2.
weights1_Falling == << 13, 12, 11, 10, 9, 8, 7, 6, 5, 4, 3, 2 >>

weights1 == << 5, 4, 3, 2, 9, 8, 7, 6, 5, 4, 3, 2 >>
weights2 == << 6, 5, 4, 3, 2, 9, 8, 7, 6, 5, 4, 3, 2 >>

validate_cnpj(cnpj_in) ==
    IF cnpj_in = << >> THEN FALSE
    ELSE LET cnpj == OnlyDigits(cnpj_in)
         IN IF Len(cnpj) # 14 THEN FALSE
            ELSE IF \A i \in 1..14 : cnpj[i] = cnpj[1] THEN FALSE
            ELSE IF DigitVal(cnpj[13]) # CheckDigit(WeightedSum(cnpj, weights1, 12))
                 THEN FALSE
            ELSE DigitVal(cnpj[14]) = CheckDigit(WeightedSum(cnpj, weights2, 13))

\* ^[a-zA-Z0-9._%+-]+@[a-zA-Z0-9.-]+\.[a-zA-Z]{2,}$
EmailLocalChars == AlphaChars \cup DigitChars \cup {".", "_", "%", "+", "-"}
EmailDomainChars == AlphaChars \cup DigitChars \cup {".", "-"}
MatchEmail(key) ==
    \E s \in DollarEnds(key) :
      \E at \in 2..Len(s) : \E dot \in (at + 2)..Len(s) :
         /\ AllIn(s, 1, at - 1, EmailLocalChars)
         /\ s[at] = "@"
         /\ AllIn(s, at + 1, dot - 1, EmailDomainChars)
         /\ s[dot] = "."
         /\ Len(s) - dot >= 2
         /\ AllIn(s, dot + 1, Len(s), AlphaChars)

\* ^\+55\d{10,11}$
MatchPhone(key) ==
    \E s \in DollarEnds(key) :
         /\ Len(s) \in {13, 14}
         /\ s[1] = "+" /\ s[2] = "5" /\ s[3] = "5"
         /\ AllIn(s, 4, Len(s), DigitChars)

\* ^[0-9a-f]{8}-[0-9a-f]{4}-[0-9a-f]{4}-[0-9a-f]{4}-[0-9a-f]{12}$
MatchUuid(key) ==
    \E s \in DollarEnds(key) :
         /\ Len(s) = 36
         /\ \A i \in 1..36 :
              IF i \in {9, 14, 19, 24} THEN s[i] = "-" ELSE s[i] \in HexChars

KeyTypes == {"cpf", "cnpj", "email", "phone", "random"}

\* Whether the name re is bound where the branch of key_type uses it: the
\* import statement of the email branch makes re a local name of the whole
\* function, and only that branch runs the import.
ReBound(key_type) == key_type = "email"

\* re.match(pattern, key) is not None, where matched tells whether the pattern
\* matches: the lookup of an unbound local name raises UnboundLocalError.
re_match(bound, matched) ==
    IF bound THEN Returned(matched) ELSE Raised("UnboundLocalError")

validate_pix_key(pix_key, key_type) ==
    IF pix_key = << >> \/ key_type = "" THEN Returned(FALSE)
    ELSE CASE key_type = "cpf" -> Returned(validate_cpf(pix_key))
           [] key_type = "cnpj" -> Returned(validate_cnpj(pix_key))
           [] key_type = "email" -> re_match(ReBound("email"), MatchEmail(pix_key))
           [] key_type = "phone" -> re_match(ReBound("phone"), MatchPhone(pix_key))
           [] key_type = "random" ->
                re_match(ReBound("random"), MatchUuid(Lower(pix_key)))
           [] OTHER -> Returned(FALSE)

\* Whether validate_pix_key returns True.
PassesValidation(pix_key, key_type) == validate_pix_key(pix_key, key_type) = Returned(TRUE)

\* ------------------------------------------------------------------ state

\* Account.id of the rows of the accounts table, and an id no row has.
AcctIds == {1, 2, 3}
AbsentAcctId == Cardinality(AcctIds) + 1
\* User.id of the registered identities.
Users == {1, 2}

\* No utility function is called in the handlers' scenarios.
NoArgument == [kind |-> "none"]
NoResult == [op |-> "none"]

\* A cached Account object of a session; id 0 stands for None (no row found).
NoRow == [id |-> 0, owner_id |-> 0, balance |-> 0, daily_limit |-> 0,
          is_active |-> FALSE, is_blocked |-> FALSE]

\* No Transaction: the result of a query that matches no row.
NoTransaction == [id |-> 0]

NoKey == << >>
ValidPhoneKey == << "+", "5", "5", "1", "1", "9", "8", "7", "6", "5", "4", "3", "2", "1" >>
ValidEmailKey == << "a", "@", "b", ".", "c", "o" >>
BadKey == << "a", "b", "c" >>

\* Request amounts that passed TransferCreate.validate_amount, in centavos.
Amounts == {30000, 60000}

\* The recipient fields of a TransferCreate request.
Recipient(r, k, n, b, a) ==
    [receiver_account_id |-> r, pix_key |-> k, external_recipient_name |-> n,
     external_recipient_bank |-> b, external_recipient_account |-> a]

RecipientChoices ==
    {Recipient(r, NoKey, "", "", "") : r \in AcctIds \cup {AbsentAcctId}}
    \cup {Recipient(0, k, "", "", "") : k \in {ValidPhoneKey, BadKey}}
    \cup {Recipient(0, NoKey, "Ana", "001", "12345678"),
          Recipient(0, NoKey, "Ana", "", ""),
          Recipient(0, NoKey, "", "", ""),
          Recipient(2, ValidPhoneKey, "", "", ""),
          Recipient(0, ValidPhoneKey, "Ana", "001", "12345678")}

TransferCreate(amount, rcp) == [amount |-> amount] @@ rcp

\* One call of create_instant_transfer: its three arguments.
Call(id, u, t) == [sender_account_id |-> id, current_user |-> u, transfer |-> t]
NoCall == Call(0, 0, TransferCreate(0, Recipient(0, NoKey, "", "", "")))

\* The requests: every recipient choice for the owner's calls on account 1;
\* internal transfers for the owner's calls on account 2; and the calls the
\* sender checks always refuse (account 3, another owner's account, an absent
\* account) with one recipient choice.
Calls ==
    {Call(1, 1, TransferCreate(m, rcp)) : m \in Amounts, rcp \in RecipientChoices}
    \cup {Call(2, 2, TransferCreate(m, Recipient(r, NoKey, "", "", ""))) :
            m \in Amounts, r \in {1, 2}}
    \cup {Call(id, u, TransferCreate(m, Recipient(2, NoKey, "", "", ""))) :
            id \in {3, AbsentAcctId}, u \in Users, m \in Amounts}
    \cup {Call(id, 3 - id, TransferCreate(m, Recipient(2, NoKey, "", "", ""))) :
            id \in {1, 2}, m \in Amounts}

\* Calls of the concurrent scenarios: owners moving money between accounts 1 and 2.
ConcurrentCalls ==
    {c \in Calls :
        /\ c.sender_account_id \in {1, 2}
        /\ c.current_user = c.sender_account_id
        /\ c.transfer.receiver_account_id \in {1, 2}
        /\ c.transfer.pix_key = NoKey}

VARIABLES
    accounts,          \* the accounts table: id -> row
    transactions,      \* the transactions table, in insertion order
    today,             \* the calendar day of the clock
    pc,                \* each session's position in its handler
    call,              \* each session's request
    sender_account,    \* each session's cached sender Account
    receiver_account,  \* each session's cached receiver Account
    transaction,       \* each session's cached Transaction (cancel_transfer)
    account,           \* each session's Account object (account handlers)
    response,          \* the outcome of the handler that returned last, "none"
                       \* once a later request has passed its sender checks
    initial,           \* the accounts table of the initial state (history)
    argument,          \* the input of a utility function call
    result             \* what the utility function call or the read handler
                       \* that returned last gave

vars == << accounts, transactions, today, pc, call, sender_account,
           receiver_account, transaction, account, response, initial,
           argument, result >>

db == << accounts, transactions >>

\* The account tables requests start from.  Account 1 has 1000.00; its daily
\* limit is 500.00 with an empty account 2 and an inactive account 3, or 600.00
\* with 1000.00 on account 2 and an active but blocked account 3.
InitialAccounts ==
    {[id \in AcctIds |->
        CASE id = 1 -> [id |-> 1, owner_id |-> 1, balance |-> 100000,
                        daily_limit |-> IF v THEN 60000 ELSE 50000,
                        is_active |-> TRUE, is_blocked |-> FALSE]
          [] id = 2 -> [id |-> 2, owner_id |-> 2, balance |-> IF v THEN 100000 ELSE 0,
                        daily_limit |-> 100000, is_active |-> TRUE, is_blocked |-> FALSE]
          [] id = 3 -> [id |-> 3, owner_id |-> 1, balance |-> 100000,
                        daily_limit |-> 100000, is_active |-> v, is_blocked |-> v]] :
        v \in BOOLEAN}

Init ==
    /\ accounts \in InitialAccounts
    /\ initial = accounts
    /\ transactions = << >>
    /\ today = 1
    /\ pc = [s \in Sessions |-> "idle"]
    /\ call = [s \in Sessions |-> NoCall]
    /\ sender_account = [s \in Sessions |-> NoRow]
    /\ receiver_account = [s \in Sessions |-> NoRow]
    /\ transaction = [s \in Sessions |-> NoTransaction]
    /\ account = [s \in Sessions |-> NoRow]
    /\ response = "none"
    /\ argument = NoArgument
    /\ result = NoResult

\* ---------------------------------------------------------------- queries

\* Mutant: the account is looked up by its id alone.
QueryOwnedAccount_AnyOwner(id, owner) ==
    IF id \in DOMAIN accounts THEN accounts[id] ELSE NoRow

\* Mutant: the ownership filter matches every owner.
OwnedRow_AnyOwner(accts, id, owner) ==
    IF id \in DOMAIN accts THEN accts[id] ELSE NoRow

\* The row of the table accts that the filter (Account.id == id,
\* Account.owner_id == owner) selects.
OwnedRow(accts, id, owner) ==
    IF id \in DOMAIN accts /\ accts[id].owner_id = owner
    THEN accts[id] ELSE NoRow

\* db.query(Account).filter(Account.id == id, Account.owner_id == owner).first()
QueryOwnedAccount(id, owner) == OwnedRow(accounts, id, owner)

\* db.query(Account).filter(Account.id == id).first(); a row the session already
\* holds comes back as the cached object (identity map), attributes as loaded.
QueryAccount(s, id) ==
    IF id \notin DOMAIN accounts THEN NoRow
    ELSE IF sender_account[s].id = id THEN sender_account[s]
    ELSE accounts[id]

\* Mutant: a transfer to the sender account itself is left out of the daily total.
CountsToday_NotSelf(tx, id, d) ==
    /\ tx.sender_account_id = id
    /\ tx.created_at = d
    /\ tx.status = "completed"
    /\ tx.receiver_account_id # id

\* Whether a row counts in the daily total of account id on day d.
CountsToday(tx, id, d) ==
    /\ tx.sender_account_id = id
    /\ tx.created_at = d
    /\ tx.status = "completed"

\* db.query(func.sum(Transaction.amount)).filter(...).scalar() or Decimal('0')
RECURSIVE SumAmounts(_, _, _, _)
SumAmounts(txs, n, id, d) ==
    IF n = 0 THEN 0
    ELSE SumAmounts(txs, n - 1, id, d)
         + (IF CountsToday(txs[n], id, d) THEN txs[n].amount ELSE 0)

daily_total(id, d) == SumAmounts(transactions, Len(transactions), id, d)

\* Mutant: a transfer that reaches the limit exactly is refused.
OverDailyLimit_AtLimit(total, amount, limit) == total + amount >= limit

\* daily_total + transfer.amount > sender_account.daily_limit
OverDailyLimit(total, amount, limit) == total + amount > limit

\* Mutant: the balance is not compared with the amount.
Insufficient_Never(balance, amount) == FALSE

\* sender_account.balance < transfer.amount
Insufficient(balance, amount) == balance < amount

\* all([name, bank, account])
HasExternalTriple(t) ==
    /\ t.external_recipient_name # ""
    /\ t.external_recipient_bank # ""
    /\ t.external_recipient_account # ""

\* ---------------------------------------------------------------- handler

\* raise HTTPException(...) or return: the handler ends and its session closes.
Finish(s, outcome) ==
    /\ pc' = [pc EXCEPT ![s] = "idle"]
    /\ call' = [call EXCEPT ![s] = NoCall]
    /\ sender_account' = [sender_account EXCEPT ![s] = NoRow]
    /\ receiver_account' = [receiver_account EXCEPT ![s] = NoRow]
    /\ transaction' = [transaction EXCEPT ![s] = NoTransaction]
    /\ account' = [account EXCEPT ![s] = NoRow]
    /\ response' = outcome

\* Mutant: the Transaction row is stored, as failed, before the request is
\* validated.
Reject_StoresFailed(s, outcome) ==
    /\ Finish(s, outcome)
    /\ transactions' = Append(transactions,
          [amount |-> call[s].transfer.amount, status |-> "failed",
           sender_id |-> call[s].current_user, receiver_id |-> 0,
           sender_account_id |-> call[s].sender_account_id,
           receiver_account_id |-> call[s].transfer.receiver_account_id,
           external_recipient_name |-> call[s].transfer.external_recipient_name,
           external_recipient_bank |-> call[s].transfer.external_recipient_bank,
           external_recipient_account |-> call[s].transfer.external_recipient_account,
           pix_key |-> call[s].transfer.pix_key,
           created_at |-> today, processed_at |-> 0, completed_at |-> 0])
    /\ UNCHANGED accounts

\* raise HTTPException(...) of a validation check: nothing was added to the
\* session and nothing is committed.
Reject(s, outcome) ==
    /\ Finish(s, outcome)
    /\ UNCHANGED << accounts, transactions >>

\* A request arrives at POST /instant: the sender query and the checks on the
\* loaded row.
ValidateSender(s, c) ==
    /\ pc[s] = "idle"
    /\ Len(transactions) < MaxTx
    /\ LET row == QueryOwnedAccount(c.sender_account_id, c.current_user)
       IN IF row = NoRow THEN Reject(s, "AccountNotFound")
          ELSE IF ~row.is_active \/ row.is_blocked THEN Reject(s, "AccountUnavailable")
          ELSE IF Insufficient(row.balance, c.transfer.amount)
               THEN Reject(s, "InsufficientBalance")
          ELSE /\ pc' = [pc EXCEPT ![s] = "daily"]
               /\ call' = [call EXCEPT ![s] = c]
               /\ sender_account' = [sender_account EXCEPT ![s] = row]
               /\ response' = "none"
               /\ UNCHANGED << receiver_account, accounts, transactions >>
    /\ UNCHANGED << today, initial, transaction, account, argument, result >>

\* The daily total query, the limit check, and the recipient checks that need
\* no further query.
CheckDailyLimit(s) ==
    /\ pc[s] = "daily"
    /\ LET t == call[s].transfer
       IN IF OverDailyLimit(daily_total(call[s].sender_account_id, today), t.amount,
                            sender_account[s].daily_limit)
          THEN Reject(s, "DailyLimitExceeded")
          ELSE IF t.receiver_account_id # 0
               THEN /\ pc' = [pc EXCEPT ![s] = "receiver"]
                    /\ UNCHANGED << call, sender_account, receiver_account, response,
                                    accounts, transactions, transaction, account >>
          ELSE IF t.pix_key # NoKey
               THEN /\ pc' = [pc EXCEPT ![s] = "commit"]
                    /\ UNCHANGED << call, sender_account, receiver_account, response,
                                    accounts, transactions, transaction, account >>
          ELSE IF ~HasExternalTriple(t) THEN Reject(s, "MissingRecipientInfo")
          ELSE /\ pc' = [pc EXCEPT ![s] = "commit"]
               /\ UNCHANGED << call, sender_account, receiver_account, response,
                                    accounts, transactions, transaction, account >>
    /\ UNCHANGED << today, initial, argument, result >>

\* Mutant: the receiver's is_active flag is not looked at.
ValidateReceiver_InactiveAccepted(s) ==
    /\ pc[s] = "receiver"
    /\ LET row == QueryAccount(s, call[s].transfer.receiver_account_id)
       IN IF row = NoRow THEN Reject(s, "ReceiverNotFound")
          ELSE /\ pc' = [pc EXCEPT ![s] = "commit"]
               /\ receiver_account' = [receiver_account EXCEPT ![s] = row]
               /\ UNCHANGED << call, sender_account, response, accounts, transactions,
                               transaction, account >>
    /\ UNCHANGED << today, initial, argument, result >>

\* The receiver query of an internal transfer and the checks on the loaded row.
ValidateReceiver(s) ==
    /\ pc[s] = "receiver"
    /\ LET row == QueryAccount(s, call[s].transfer.receiver_account_id)
       IN IF row = NoRow THEN Reject(s, "ReceiverNotFound")
          ELSE IF ~row.is_active THEN Reject(s, "ReceiverInactive")
          ELSE /\ pc' = [pc EXCEPT ![s] = "commit"]
               /\ receiver_account' = [receiver_account EXCEPT ![s] = row]
               /\ UNCHANGED << call, sender_account, response, accounts, transactions,
                               transaction, account >>
    /\ UNCHANGED << today, initial, argument, result >>

\* Mutant: every admitted transfer is marked completed.
TransferStatus_AlwaysCompleted(internal) == "completed"

\* Mutant: the status is left at the column default.
TransferStatus_Pending(internal) == "pending"

\* db_transaction.status after the try block's if/else on receiver_account.
TransferStatus(internal) == IF internal THEN "completed" ELSE "processing"

\* The Transaction object added to the session, as it stands at db.commit().
NewTransaction(s) ==
    LET t == call[s].transfer
        internal == receiver_account[s] # NoRow
    IN [amount |-> t.amount,
        status |-> TransferStatus(internal),
        sender_id |-> call[s].current_user,
        receiver_id |-> IF internal THEN receiver_account[s].owner_id ELSE 0,
        sender_account_id |-> call[s].sender_account_id,
        receiver_account_id |-> t.receiver_account_id,
        external_recipient_name |-> t.external_recipient_name,
        external_recipient_bank |-> t.external_recipient_bank,
        external_recipient_account |-> t.external_recipient_account,
        pix_key |-> t.pix_key,
        created_at |-> today,
        processed_at |-> today,
        completed_at |-> IF internal THEN today ELSE 0]

\* Mutant: the sender is not debited.
Debit_Dropped(balance, amount) == balance

\* sender_account.balance -= transfer.amount
Debit(balance, amount) == balance - amount

\* Mutant: the receiver is not credited.
Credit_Dropped(balance, amount) == balance

\* receiver_account.balance += transfer.amount
Credit(balance, amount) == balance + amount

\* The balance column values the flush writes: each changed Account object's
\* balance, computed from the value the session loaded.  Sender and receiver are
\* one object when they are the same row.
FlushedBalances(s) ==
    LET amount == call[s].transfer.amount
        sid == sender_account[s].id
        rid == receiver_account[s].id
    IN IF rid = 0
       THEN [accounts EXCEPT ![sid].balance = Debit(sender_account[s].balance, amount)]
       ELSE IF rid = sid
       THEN LET final == Credit(Debit(sender_account[s].balance, amount), amount)
            IN IF final = sender_account[s].balance THEN accounts
               ELSE [accounts EXCEPT ![sid].balance = final]
       ELSE [accounts EXCEPT
               ![sid].balance = Debit(sender_account[s].balance, amount),
               ![rid].balance = Credit(receiver_account[s].balance, amount)]

\* The try block: debit, credit, status, db.commit().
Commit(s) ==
    /\ pc[s] = "commit"
    /\ accounts' = FlushedBalances(s)
    /\ transactions' = Append(transactions, NewTransaction(s))
    /\ Finish(s, "OK")
    /\ UNCHANGED << today, initial, argument, result >>

\* The except block: db.commit() raised, db.rollback() discards the session's
\* changes and expunges the pending Transaction, so the second commit is empty.
CommitFails(s) ==
    /\ pc[s] = "commit"
    /\ Finish(s, "ExecutionFailed")
    /\ UNCHANGED << accounts, transactions, today, initial, argument, result >>

\* Midnight passes.
Tick ==
    /\ today < MaxDay
    /\ today' = today + 1
    /\ UNCHANGED << accounts, transactions, pc, call, sender_account,
                    receiver_account, transaction, account, response, initial,
                    argument, result >>

\* No handler is running.
Quiet == \A s \in Sessions : pc[s] = "idle"

Step(s) ==
    \/ CheckDailyLimit(s)
    \/ ValidateReceiver(s)
    \/ Commit(s)
    \/ CommitFails(s)

\* Requests served one at a time by one worker: a handler starts when none is
\* running.
Worker == CHOOSE s \in Sessions : \A t \in Sessions : s <= t

Next ==
    \/ \E c \in Calls : Quiet /\ ValidateSender(Worker, c)
    \/ \E s \in Sessions : Step(s)
    \/ Tick

Spec == Init /\ [][Next]_vars

\* Requests served concurrently: handlers interleave at their database round trips.
NextConcurrent ==
    \/ \E s \in Sessions, c \in ConcurrentCalls : ValidateSender(s, c)
    \/ \E s \in Sessions : Step(s)

SpecConcurrent == Init /\ [][NextConcurrent]_vars

\* ----------------------------------------------------------------- cancel

\* One call of cancel_transfer: the transaction id of the path and the caller.
\* A transaction id is the row's position in the table; MaxTx + 1 names no row.
CancelCall(tid, u) == [transaction_id |-> tid, current_user |-> u]
CancelCalls == {CancelCall(tid, u) : tid \in 1..(MaxTx + 1), u \in Users}

\* Mutant: the transaction is looked up by its id alone.
QuerySentTransaction_AnySender(tid, u) ==
    IF tid \in DOMAIN transactions
    THEN [id |-> tid] @@ transactions[tid] ELSE NoTransaction

\* db.query(Transaction).filter(Transaction.transaction_id == transaction_id,
\*                              Transaction.sender_id == current_user.id).first()
QuerySentTransaction(tid, u) ==
    IF tid \in DOMAIN transactions /\ transactions[tid].sender_id = u
    THEN [id |-> tid] @@ transactions[tid] ELSE NoTransaction

\* Mutant: a transaction of any status may be cancelled.
Cancellable_Always(status) == TRUE

\* transaction.status in [TransactionStatus.PENDING, TransactionStatus.PROCESSING]
Cancellable(status) == status \in {"pending", "processing"}

\* A request arrives at POST /{transaction_id}/cancel: the transaction query and
\* the checks on the loaded row.
LoadTransaction(s, c) ==
    /\ pc[s] = "idle"
    /\ LET row == QuerySentTransaction(c.transaction_id, c.current_user)
       IN IF row = NoTransaction THEN Reject(s, "TransactionNotFound")
          ELSE IF ~Cancellable(row.status) THEN Reject(s, "InvalidStateTransition")
          ELSE /\ transaction' = [transaction EXCEPT ![s] = row]
               /\ pc' = [pc EXCEPT ![s] = IF row.status = "processing"
                                          THEN "reverse" ELSE "cancelled"]
               /\ response' = "none"
               /\ UNCHANGED << call, sender_account, receiver_account, account,
                               accounts, transactions >>
    /\ UNCHANGED << today, initial, argument, result >>

\* The reversal of a processing transaction: the sender query and, for a row
\* with a receiver account, the receiver query.  The balances are changed on
\* the loaded objects and written by the commit.
LoadReversedAccounts(s) ==
    /\ pc[s] = "reverse"
    /\ LET sender == QueryAccount(s, transaction[s].sender_account_id)
       IN /\ sender_account' = [sender_account EXCEPT ![s] = sender]
          /\ receiver_account' = [receiver_account EXCEPT ![s] =
                IF transaction[s].receiver_account_id = 0 THEN NoRow
                ELSE IF transaction[s].receiver_account_id = sender.id THEN sender
                ELSE QueryAccount(s, transaction[s].receiver_account_id)]
    /\ pc' = [pc EXCEPT ![s] = "cancelled"]
    /\ UNCHANGED << call, transaction, account, response, accounts, transactions,
                    today, initial, argument, result >>

\* Mutant: the cancellation does not give the amount back to the sender.
Refund_Dropped(balance, amount) == balance

\* sender_account.balance += transaction.amount
Refund(balance, amount) == balance + amount

\* receiver_account.balance -= transaction.amount
TakeBack(balance, amount) == balance - amount

\* The balance column values the cancellation's flush writes, computed from the
\* values the session loaded; an object whose balance did not change is not
\* written.
ReversedBalances(s) ==
    LET amount == transaction[s].amount
        sid == sender_account[s].id
        rid == receiver_account[s].id
        refunded == [accounts EXCEPT ![sid].balance = Refund(sender_account[s].balance, amount)]
    IN IF sid = 0 /\ rid = 0 THEN accounts
       ELSE IF rid = 0 THEN refunded
       ELSE IF rid = sid
       THEN LET final == TakeBack(Refund(sender_account[s].balance, amount), amount)
            IN IF final = sender_account[s].balance THEN accounts
               ELSE [accounts EXCEPT ![sid].balance = final]
       ELSE IF sid = 0
       THEN [accounts EXCEPT ![rid].balance = TakeBack(receiver_account[s].balance, amount)]
       ELSE [refunded EXCEPT ![rid].balance = TakeBack(receiver_account[s].balance, amount)]

\* transaction.status = TransactionStatus.CANCELLED; db.commit()
CommitCancel(s) ==
    /\ pc[s] = "cancelled"
    /\ accounts' = ReversedBalances(s)
    /\ transactions' = [transactions EXCEPT ![transaction[s].id].status = "cancelled"]
    /\ Finish(s, "Cancelled")
    /\ UNCHANGED << today, initial, argument, result >>

StepCancel(s) ==
    \/ LoadReversedAccounts(s)
    \/ CommitCancel(s)

\* Transfers and cancellations, served one at a time by one worker.
NextCancel ==
    \/ \E c \in Calls : Quiet /\ ValidateSender(Worker, c)
    \/ \E c \in CancelCalls : Quiet /\ LoadTransaction(Worker, c)
    \/ \E s \in Sessions : Step(s)
    \/ \E s \in Sessions : StepCancel(s)

SpecCancel == Init /\ [][NextCancel]_vars

\* The transfers of the concurrent cancellations: the owner of account 1 sends
\* to another bank or to account 2.
CancelledTransferCalls ==
    {Call(1, 1, TransferCreate(m, rcp)) :
        m \in Amounts,
        rcp \in {Recipient(0, NoKey, "Ana", "001", "12345678"),
                 Recipient(2, NoKey, "", "", "")}}

\* No create_instant_transfer handler is running.
NoTransferRunning == \A s \in Sessions : pc[s] \in {"idle", "reverse", "cancelled"}

\* Transfers served one at a time, cancellations served concurrently: the
\* cancel handlers interleave at their database round trips.
NextCancelConcurrent ==
    \/ \E c \in CancelledTransferCalls : Quiet /\ ValidateSender(Worker, c)
    \/ \E s \in Sessions, c \in CancelCalls : NoTransferRunning /\ LoadTransaction(s, c)
    \/ \E s \in Sessions : Step(s)
    \/ \E s \in Sessions : StepCancel(s)

SpecCancelConcurrent == Init /\ [][NextCancelConcurrent]_vars

\* --------------------------------------------------------------- accounts

\* The account handlers start from an empty accounts table.  A request leaves
\* an Optional field out (None) or gives it a non-empty value.
ValidCnpjKey == << "1", "1", "2", "2", "2", "3", "3", "3", "0", "0", "0", "1", "8", "1" >>

\* The digits generate_account_number() draws.
AccountNumberLength == 8

\* What generate_account_number() may return: a text of eight digits; the
\* model draws among as many of them as there may be accounts.
AccountNumber(d) ==
    [i \in 1..AccountNumberLength |->
        IF i = AccountNumberLength THEN DigitChar(d) ELSE "0"]
AccountNumbers == {AccountNumber(d) : d \in 1..MaxAccounts}

\* str.zfill(width) on a text of digits.
ZFill(s, width) ==
    IF Len(s) >= width THEN s ELSE [i \in 1..(width - Len(s)) |-> "0"] \o s

\* generate_iban_compatible(bank_code, branch_code, account_number)
generate_iban_compatible(bank_code, branch_code, account_number) ==
    << "B", "R" >> \o << "0", "0" >> \o bank_code \o branch_code
        \o ZFill(account_number, 12)

\* Account(...) as create_account builds it from the request a, with the
\* column defaults.
NewAccount(owner, number, a) ==
    [id |-> 0, owner_id |-> owner, account_number |-> number,
     account_type |-> a.account_type, bank_code |-> a.bank_code,
     branch_code |-> a.branch_code,
     pix_key |-> a.pix_key, pix_key_type |-> a.pix_key_type,
     iban |-> generate_iban_compatible(a.bank_code, a.branch_code, number),
     balance |-> 0, daily_limit |-> 1000000, monthly_limit |-> 10000000,
     is_active |-> TRUE, is_blocked |-> FALSE]

\* An AccountCreate request with the given payment key fields; its bank code
\* and branch code passed validate_bank_code and validate_branch_code.
AccountCreate(key, type) ==
    [account_type |-> "checking", bank_code |-> << "0", "0", "1" >>,
     branch_code |-> << "1", "2", "3", "4" >>,
     pix_key |-> key, pix_key_type |-> type]

\* AccountBase.validate_pix_key_type
validate_pix_key_type(v) == v = "" \/ v \in {"cpf", "email", "phone", "random"}

\* One call of create_account.
CreateCall(u, a) == [current_user |-> u, account |-> a]
CreateCalls ==
    {CreateCall(u, a) : u \in Users,
        a \in {AccountCreate(NoKey, ""), AccountCreate(ValidEmailKey, "email"),
               AccountCreate(BadKey, "email"), AccountCreate(BadKey, ""),
               AccountCreate(ValidCnpjKey, "cnpj"),
               AccountCreate(ValidPhoneKey, "phone")}}

\* The fields of an AccountUpdate request; is_active is the empty set when left out.
AccountUpdate(key, type, daily, monthly, active) ==
    [pix_key |-> key, pix_key_type |-> type, daily_limit |-> daily,
     monthly_limit |-> monthly, is_active |-> active]

\* One call of update_account.
UpdateCall(id, u, upd) == [account_id |-> id, current_user |-> u, account_update |-> upd]
UpdateCalls ==
    {UpdateCall(id, u, upd) : id \in 1..(MaxAccounts + 1), u \in Users,
        upd \in {AccountUpdate(ValidEmailKey, "email", 0, 0, {}),
                 AccountUpdate(BadKey, "email", 0, 0, {}),
                 AccountUpdate(BadKey, "", 0, 0, {})}}

\* One call of get_account or get_account_balance.
ReadCall(id, u) == [account_id |-> id, current_user |-> u]
ReadCalls == {ReadCall(id, u) : id \in 1..(MaxAccounts + 1), u \in Users}

\* Mutant: the query for the drawn number finds no row.
NumberTaken_Never(n) == FALSE

\* db.query(Account).filter(Account.account_number == account_number).first()
NumberTaken(n) == \E id \in DOMAIN accounts : accounts[id].account_number = n

\* db.query(Account).filter(Account.pix_key == key, Account.id != id).first()
\* on the table accts; id is 0 in create_account, which has no id filter.
KeyRegistered(accts, key, id) ==
    \E other \in DOMAIN accts : other # id /\ accts[other].pix_key = key

\* Mutant: the columns have no unique constraint.
UniqueViolation_Unconstrained(row) == FALSE

\* The unique constraints of Account.account_number and Account.pix_key
\* (NULLs are distinct), checked when the row is written.
UniqueViolation(row) ==
    \E other \in DOMAIN accounts :
        /\ other # row.id
        /\ \/ accounts[other].account_number = row.account_number
           \/ row.pix_key # NoKey /\ accounts[other].pix_key = row.pix_key

\* Handlers of create_account that hold an account still to be inserted.
Creating == {s \in Sessions : pc[s] \in {"unique", "add"}}

\* A request arrives at POST /accounts/: the schema's key type check, the loop
\* that draws account numbers until the query finds one unused, the Account
\* object, and the grammar check of a key that came with a key type.
CreateAccount(s, c) ==
    /\ pc[s] = "idle"
    /\ Len(accounts) + Cardinality(Creating) < MaxAccounts
    /\ IF ~validate_pix_key_type(c.account.pix_key_type)
       THEN Reject(s, "ValidationError")
       ELSE IF /\ c.account.pix_key # NoKey
               /\ c.account.pix_key_type # ""
               /\ validate_pix_key(c.account.pix_key, c.account.pix_key_type).raised # ""
       THEN Reject(s, "InternalError")
       ELSE IF /\ c.account.pix_key # NoKey
               /\ c.account.pix_key_type # ""
               /\ ~validate_pix_key(c.account.pix_key, c.account.pix_key_type).value
       THEN Reject(s, "InvalidPixKey")
       ELSE \E n \in AccountNumbers :
              /\ ~NumberTaken(n)
              /\ account' = [account EXCEPT ![s] =
                    NewAccount(c.current_user, n, c.account)]
              /\ call' = [call EXCEPT ![s] = c]
              /\ pc' = [pc EXCEPT ![s] =
                    IF c.account.pix_key # NoKey /\ c.account.pix_key_type # ""
                    THEN "unique" ELSE "add"]
              /\ response' = "none"
              /\ UNCHANGED << sender_account, receiver_account, transaction,
                              accounts, transactions >>
    /\ UNCHANGED << today, initial, argument, result >>

\* The uniqueness query of create_account.
CheckKeyUnregistered(s) ==
    /\ pc[s] = "unique"
    /\ IF KeyRegistered(accounts, account[s].pix_key, 0)
       THEN Reject(s, "DuplicatePixKey")
       ELSE /\ pc' = [pc EXCEPT ![s] = "add"]
            /\ UNCHANGED << call, sender_account, receiver_account, transaction,
                            account, response, accounts, transactions >>
    /\ UNCHANGED << today, initial, argument, result >>

\* db.add(db_account); db.commit(): the row gets the next id, unless a unique
\* constraint refuses it and the IntegrityError ends the request.
AddAccount(s) ==
    /\ pc[s] = "add"
    /\ IF UniqueViolation(account[s])
       THEN Reject(s, "InternalError")
       ELSE /\ accounts' = Append(accounts,
                              [account[s] EXCEPT !.id = Len(accounts) + 1])
            /\ Finish(s, "OK")
            /\ UNCHANGED transactions
    /\ UNCHANGED << today, initial, argument, result >>

\* Whether the grammar check of update_account ends with an exception.
KeyCheckRaises(upd) ==
    /\ upd.pix_key # NoKey
    /\ upd.pix_key_type # ""
    /\ validate_pix_key(upd.pix_key, upd.pix_key_type).raised # ""

\* Whether update_account refuses the key of the request for its grammar.
KeyRefused(upd) ==
    /\ upd.pix_key # NoKey
    /\ upd.pix_key_type # ""
    /\ ~KeyCheckRaises(upd)
    /\ ~validate_pix_key(upd.pix_key, upd.pix_key_type).value

\* A request arrives at PUT /accounts/{account_id}: the owner-filtered query
\* and the grammar check of a key that came with a key type.
UpdateAccount(s, c) ==
    /\ pc[s] = "idle"
    /\ LET row == QueryOwnedAccount(c.account_id, c.current_user)
       IN IF row = NoRow THEN Reject(s, "AccountNotFound")
          ELSE IF KeyCheckRaises(c.account_update) THEN Reject(s, "InternalError")
          ELSE IF KeyRefused(c.account_update) THEN Reject(s, "InvalidPixKey")
          ELSE /\ account' = [account EXCEPT ![s] = row]
               /\ call' = [call EXCEPT ![s] = c]
               /\ pc' = [pc EXCEPT ![s] =
                     IF c.account_update.pix_key # NoKey THEN "update_unique"
                     ELSE "update"]
               /\ response' = "none"
               /\ UNCHANGED << sender_account, receiver_account, transaction,
                               accounts, transactions >>
    /\ UNCHANGED << today, initial, argument, result >>

\* The uniqueness query of update_account.
CheckUpdatedKeyUnregistered(s) ==
    /\ pc[s] = "update_unique"
    /\ IF KeyRegistered(accounts, call[s].account_update.pix_key, call[s].account_id)
       THEN Reject(s, "DuplicatePixKey")
       ELSE /\ pc' = [pc EXCEPT ![s] = "update"]
            /\ UNCHANGED << call, sender_account, receiver_account, transaction,
                            account, response, accounts, transactions >>
    /\ UNCHANGED << today, initial, argument, result >>

\* Mutant: the fields are assigned whether or not the request gives them.
Updated_Overwrites(row, upd) ==
    [row EXCEPT
        !.pix_key = upd.pix_key,
        !.pix_key_type = upd.pix_key_type,
        !.daily_limit = upd.daily_limit,
        !.monthly_limit = upd.monthly_limit,
        !.is_active = IF upd.is_active # {} THEN (CHOOSE b \in upd.is_active : TRUE) ELSE @]

\* The Account object after the assignments of the fields the request gives.
Updated(row, upd) ==
    [row EXCEPT
        !.pix_key = IF upd.pix_key # NoKey THEN upd.pix_key ELSE @,
        !.pix_key_type = IF upd.pix_key_type # "" THEN upd.pix_key_type ELSE @,
        !.daily_limit = IF upd.daily_limit # 0 THEN upd.daily_limit ELSE @,
        !.monthly_limit = IF upd.monthly_limit # 0 THEN upd.monthly_limit ELSE @,
        !.is_active = IF upd.is_active # {} THEN (CHOOSE b \in upd.is_active : TRUE) ELSE @]

\* The row the flush leaves in the table: the columns whose value the session
\* changed are written over the committed row.
Flushed(committed, loaded, changed) ==
    [f \in DOMAIN committed |->
        IF changed[f] # loaded[f] THEN changed[f] ELSE committed[f]]

\* db.commit() of update_account, unless a unique constraint refuses the row.
CommitUpdate(s) ==
    /\ pc[s] = "update"
    /\ LET id == account[s].id
           row == Flushed(accounts[id], account[s],
                          Updated(account[s], call[s].account_update))
       IN IF UniqueViolation(row)
          THEN Reject(s, "InternalError")
          ELSE /\ accounts' = [accounts EXCEPT ![id] = row]
               /\ Finish(s, "OK")
               /\ UNCHANGED transactions
    /\ UNCHANGED << today, initial, argument, result >>

\* What GET /accounts/{account_id} answers on the table accts.
get_account(accts, id, u) ==
    LET row == OwnedRow(accts, id, u)
    IN IF row = NoRow THEN [detail |-> "AccountNotFound"]
       ELSE [detail |-> "OK", body |-> row]

\* What GET /accounts/{account_id}/balance answers on the table accts.
get_account_balance(accts, id, u) ==
    LET row == OwnedRow(accts, id, u)
    IN IF row = NoRow THEN [detail |-> "AccountNotFound"]
       ELSE [detail |-> "OK",
             body |-> [account_id |-> row.id, balance |-> row.balance, currency |-> "BRL"]]

\* What PUT /accounts/{account_id} answers on the table accts when no other
\* request runs beside it.
update_account(accts, id, u, upd) ==
    LET row == OwnedRow(accts, id, u)
    IN IF row = NoRow THEN [detail |-> "AccountNotFound"]
       ELSE IF KeyCheckRaises(upd) THEN [detail |-> "InternalError"]
       ELSE IF KeyRefused(upd) THEN [detail |-> "InvalidPixKey"]
       ELSE IF upd.pix_key # NoKey /\ KeyRegistered(accts, upd.pix_key, id)
            THEN [detail |-> "DuplicatePixKey"]
       ELSE [detail |-> "OK", body |-> Updated(row, upd)]

\* A request arrives at GET /accounts/{account_id}.
GetAccount(s, c) ==
    /\ pc[s] = "idle"
    /\ Reject(s, get_account(accounts, c.account_id, c.current_user).detail)
    /\ UNCHANGED << today, initial, argument, result >>

\* A request arrives at GET /accounts/{account_id}/balance.
GetAccountBalance(s, c) ==
    /\ pc[s] = "idle"
    /\ Reject(s, get_account_balance(accounts, c.account_id, c.current_user).detail)
    /\ UNCHANGED << today, initial, argument, result >>

StepAccounts(s) ==
    \/ CheckKeyUnregistered(s)
    \/ AddAccount(s)
    \/ CheckUpdatedKeyUnregistered(s)
    \/ CommitUpdate(s)

\* Transfer requests on the created accounts.
AccountTransferCalls ==
    {Call(id, u, TransferCreate(m, Recipient(0, NoKey, "Ana", "001", "12345678"))) :
        id \in 1..(MaxAccounts + 1), u \in Users, m \in {30000}}

InitAccounts ==
    /\ accounts = << >>
    /\ initial = accounts
    /\ transactions = << >>
    /\ today = 1
    /\ pc = [s \in Sessions |-> "idle"]
    /\ call = [s \in Sessions |-> NoCall]
    /\ sender_account = [s \in Sessions |-> NoRow]
    /\ receiver_account = [s \in Sessions |-> NoRow]
    /\ transaction = [s \in Sessions |-> NoTransaction]
    /\ account = [s \in Sessions |-> NoRow]
    /\ response = "none"
    /\ argument = NoArgument
    /\ result = NoResult

\* The account handlers and the sender lookup of transfer requests, served one
\* at a time by one worker.
NextAccounts ==
    \/ \E c \in CreateCalls : Quiet /\ CreateAccount(Worker, c)
    \/ \E c \in UpdateCalls : Quiet /\ UpdateAccount(Worker, c)
    \/ \E c \in ReadCalls : Quiet /\ GetAccount(Worker, c)
    \/ \E c \in ReadCalls : Quiet /\ GetAccountBalance(Worker, c)
    \/ \E c \in AccountTransferCalls : Quiet /\ ValidateSender(Worker, c)
    \/ \E s \in Sessions : StepAccounts(s)

SpecAccounts == InitAccounts /\ [][NextAccounts]_vars

\* Two accounts that hold money, of two owners; the second has a payment key.
FundedAccounts ==
    << [NewAccount(1, AccountNumber(1), AccountCreate(NoKey, ""))
            EXCEPT !.id = 1, !.balance = 100000],
       [NewAccount(2, AccountNumber(2), AccountCreate(ValidEmailKey, "email"))
            EXCEPT !.id = 2, !.balance = 100000] >>

\* Update requests that give limits, the active flag, a key type or a key.
PatchCalls ==
    {UpdateCall(id, u, upd) : id \in DOMAIN FundedAccounts, u \in Users,
        upd \in {AccountUpdate(NoKey, "", 50000, 0, {}),
                 AccountUpdate(NoKey, "", 0, 200000, {FALSE}),
                 AccountUpdate(NoKey, "cpf", 0, 0, {TRUE}),
                 AccountUpdate(ValidEmailKey, "email", 0, 0, {}),
                 AccountUpdate(ValidPhoneKey, "phone", 0, 0, {})}}

\* Transfer requests of the first owner, to a recipient at another bank and to
\* the second account.
FundedTransferCalls ==
    {Call(1, 1, TransferCreate(30000, rcp)) :
        rcp \in {Recipient(0, NoKey, "Ana", "001", "12345678"),
                 Recipient(2, NoKey, "", "", "")}}

InitUpdates ==
    /\ accounts = FundedAccounts
    /\ initial = accounts
    /\ transactions = << >>
    /\ today = 1
    /\ pc = [s \in Sessions |-> "idle"]
    /\ call = [s \in Sessions |-> NoCall]
    /\ sender_account = [s \in Sessions |-> NoRow]
    /\ receiver_account = [s \in Sessions |-> NoRow]
    /\ transaction = [s \in Sessions |-> NoTransaction]
    /\ account = [s \in Sessions |-> NoRow]
    /\ response = "none"
    /\ argument = NoArgument
    /\ result = NoResult

\* Updates of the funded accounts between transfers, served one at a time by
\* one worker.
NextUpdates ==
    \/ \E c \in PatchCalls : Quiet /\ UpdateAccount(Worker, c)
    \/ \E c \in FundedTransferCalls : Quiet /\ ValidateSender(Worker, c)
    \/ \E s \in Sessions : Step(s)
    \/ \E s \in Sessions : CheckUpdatedKeyUnregistered(s)
    \/ \E s \in Sessions : CommitUpdate(s)

SpecUpdates == InitUpdates /\ [][NextUpdates]_vars

\* Requests of the concurrent scenarios: one user registering keys.
ConcurrentCreateCalls ==
    {c \in CreateCalls :
        /\ c.current_user = 1
        /\ c.account \in {AccountCreate(ValidEmailKey, "email"), AccountCreate(BadKey, "")}}
ConcurrentUpdateCalls ==
    {c \in UpdateCalls :
        /\ c.current_user = 1
        /\ c.account_id \in 1..MaxAccounts
        /\ c.account_update.pix_key_type = "email"
        /\ ~KeyRefused(c.account_update)}

\* create_account and update_account served concurrently: handlers interleave
\* at their database round trips.
NextAccountsConcurrent ==
    \/ \E s \in Sessions, c \in ConcurrentCreateCalls : CreateAccount(s, c)
    \/ \E s \in Sessions, c \in ConcurrentUpdateCalls : UpdateAccount(s, c)
    \/ \E s \in Sessions : StepAccounts(s)

SpecAccountsConcurrent == InitAccounts /\ [][NextAccountsConcurrent]_vars

\* --------------------------------------------------------------- currency

\* A Decimal: the value is coefficient * 10^exponent (as_tuple() gives the
\* sign and the digits of the coefficient, and the exponent).
Dec(c, e) == [coefficient |-> c, exponent |-> e]

Abs(n) == IF n < 0 THEN 0 - n ELSE n

RECURSIVE Pow10(_)
Pow10(k) == IF k <= 0 THEN 1 ELSE 10 * Pow10(k - 1)

\* The amount in centavos, for a Decimal of at most two fraction digits.
Centavos(amount) == amount.coefficient * Pow10(amount.exponent + 2)

\* str(n) for a natural number n.
RECURSIVE Digits(_)
Digits(n) ==
    IF n < 10 THEN << DigitChar(n) >>
    ELSE Digits(n \div 10) \o << DigitChar(n % 10) >>

\* int(s) for a text of digits.
RECURSIVE Number(_)
Number(s) ==
    IF s = << >> THEN 0
    ELSE 10 * Number(SubSeq(s, 1, Len(s) - 1)) + DigitVal(s[Len(s)])

\* Mutant: the format specification has no ',' option.
Grouped_None(digits) == digits

\* The ',' option of the format specification: a comma before every group of
\* three digits counted from the right.
RECURSIVE Grouped(_)
Grouped(digits) ==
    IF Len(digits) <= 3 THEN digits
    ELSE Grouped(SubSeq(digits, 1, Len(digits) - 3)) \o << "," >>
            \o SubSeq(digits, Len(digits) - 2, Len(digits))

\* f"{float(amount):,.2f}" for an amount of at most two fraction digits, which
\* the float holds to the centavo.
FixedPoint(amount) ==
    LET cents == Centavos(amount)
        whole == Abs(cents) \div 100
        frac == Abs(cents) % 100
    IN (IF cents < 0 THEN << "-" >> ELSE << >>)
          \o Grouped(Digits(whole)) \o << "." >>
          \o << DigitChar(frac \div 10), DigitChar(frac % 10) >>

\* ch in s
Contains(s, ch) == \E i \in 1..Len(s) : s[i] = ch

\* s.split(sep) for a separator of one character.
RECURSIVE Split(_, _)
Split(s, sep) ==
    IF Contains(s, sep)
    THEN LET i == CHOOSE i \in 1..Len(s) :
                     s[i] = sep /\ \A j \in 1..(i - 1) : s[j] # sep
         IN << SubSeq(s, 1, i - 1) >> \o Split(SubSeq(s, i + 1, Len(s)), sep)
    ELSE << s >>

\* s.rsplit(sep, 1) for a separator of one character.
RSplit(s, sep) ==
    IF Contains(s, sep)
    THEN LET i == CHOOSE i \in 1..Len(s) :
                     s[i] = sep /\ \A j \in (i + 1)..Len(s) : s[j] # sep
         IN << SubSeq(s, 1, i - 1), SubSeq(s, i + 1, Len(s)) >>
    ELSE << s >>

\* s.replace(old, new) for old of one character; new is a text.
RECURSIVE Replace(_, _, _)
Replace(s, old, new) ==
    IF s = << >> THEN << >>
    ELSE (IF Head(s) = old THEN new ELSE << Head(s) >>)
            \o Replace(Tail(s), old, new)

\* s.replace('R$', '')
RECURSIVE RemoveSymbol(_)
RemoveSymbol(s) ==
    IF Len(s) < 2 THEN s
    ELSE IF s[1] = "R" /\ s[2] = "$" THEN RemoveSymbol(SubSeq(s, 3, Len(s)))
    ELSE << s[1] >> \o RemoveSymbol(Tail(s))

\* format_currency_brl(amount) for a Decimal of at most two fraction digits.
format_currency_brl(amount) ==
    LET formatted == FixedPoint(amount)
        parts == Split(formatted, ".")
        brazilian ==
            IF Len(parts) = 2
            THEN (IF Contains(parts[1], ",")
                  THEN Replace(parts[1], ",", << "." >>) ELSE parts[1])
                    \o << "," >> \o parts[2]
            ELSE formatted
    IN << "R", "$", " " >> \o brazilian

\* Decimal(text) for a text of digits, signs, separators, letters and blanks
\* (no exponent, no underscore, no special value): the number, or
\* decimal.InvalidOperation.
DecimalOf(text) ==
    LET signed == Len(text) > 0 /\ text[1] \in {"-", "+"}
        body == IF signed THEN Tail(text) ELSE text
        parts == Split(body, ".")
        int == parts[1]
        frac == IF Len(parts) >= 2 THEN parts[2] ELSE << >>
        wellformed ==
            /\ Len(parts) <= 2
            /\ \A i \in 1..Len(int) : int[i] \in DigitChars
            /\ \A i \in 1..Len(frac) : frac[i] \in DigitChars
            /\ Len(int) + Len(frac) > 0
    IN IF wellformed
       THEN Returned(Dec((IF signed /\ text[1] = "-" THEN 0 - 1 ELSE 1)
                            * Number(int \o frac), 0 - Len(frac)))
       ELSE Raised("InvalidOperation")

\* Mutant: the dots of the integer part stay.
RemoveThousands_Kept(s) == s

\* integer_part.replace('.', '')
RemoveThousands(s) == Replace(s, ".", << >>)

\* parse_currency_brl(currency_str): the except clause catches ValueError and
\* TypeError, and decimal.InvalidOperation is neither.
parse_currency_brl(currency_str) ==
    IF currency_str = << >> THEN Returned(Dec(0, 0 - 2))
    ELSE LET stripped == Replace(RemoveSymbol(currency_str), " ", << >>)
             parts == RSplit(stripped, ",")
             amount_str ==
                 IF Contains(stripped, ",")
                 THEN IF Len(parts) = 2
                      THEN RemoveThousands(parts[1]) \o << "." >> \o parts[2]
                      ELSE stripped
                 ELSE Replace(stripped, ".", << >>)
             parsed == DecimalOf(amount_str)
         IN IF parsed.raised \in {"ValueError", "TypeError"}
            THEN Returned(Dec(0, 0 - 2))
            ELSE parsed

\* amount > 0 and amount.as_tuple().exponent >= -2
PositiveTwoPlaces(amount) ==
    amount.coefficient > 0 /\ amount.exponent >= 0 - 2

\* Mutant: the validator refuses negative amounts only.
validate_amount_NonNegative(v) ==
    IF v.coefficient < 0 THEN Raised("ValueError")
    ELSE IF v.exponent < 0 - 2 THEN Raised("ValueError")
    ELSE Returned(v)

\* TransactionBase.validate_amount(v): the amount, or the ValueError that
\* refuses the request.
validate_amount(v) ==
    IF v.coefficient <= 0 THEN Raised("ValueError")
    ELSE IF v.exponent < 0 - 2 THEN Raised("ValueError")
    ELSE Returned(v)

\* validate_currency_amount(amount) for a text or a Decimal.
validate_currency_amount(arg) ==
    IF arg.kind = "text"
    THEN LET parsed == parse_currency_brl(arg.text)
         IN IF parsed.raised \in {"ValueError", "TypeError"} THEN Returned(FALSE)
            ELSE IF parsed.raised # "" THEN parsed
            ELSE Returned(PositiveTwoPlaces(parsed.value))
    ELSE Returned(PositiveTwoPlaces(arg.amount))

\* Whether two Decimals are the same number.
SameNumber(a, b) ==
    LET e == IF a.exponent < b.exponent THEN a.exponent ELSE b.exponent
    IN a.coefficient * Pow10(a.exponent - e) = b.coefficient * Pow10(b.exponent - e)

\* The greatest amount of the dense range of inputs, in centavos, and the
\* greatest length of the texts of the dense range.
MaxCentavos == 120
MaxTextLen == 3

\* Amounts with thousands groups, in centavos.
LargeCentavos == {99999, 100000, 123456, 99999999, 100000000, 123456789}

AmountArgument(d) == [kind |-> "amount", amount |-> d, text |-> << >>]
TextArgument(t) == [kind |-> "text", amount |-> Dec(0, 0), text |-> t]

\* Amounts of at most two fraction digits.
CurrencyAmounts ==
    {Dec(c, 0 - 2) : c \in (0..MaxCentavos) \cup LargeCentavos}
    \cup {Dec(0 - c, 0 - 2) : c \in {5, 123456}}
    \cup {Dec(5, 0 - 1), Dec(12345, 0 - 1), Dec(7, 0), Dec(1000000, 0)}

\* Amounts with more fraction digits, for validate_currency_amount.
FineAmounts == {Dec(100555, 0 - 3), Dec(100500, 0 - 3), Dec(1, 0 - 3), Dec(0 - 1, 0 - 3)}

TextAlphabet == {"1", ",", ".", "a", " "}

\* Every text of the alphabet up to the greatest length, and texts of amounts.
CurrencyTexts ==
    UNION {[1..n -> TextAlphabet] : n \in 0..MaxTextLen}
    \cup {<< "R", "$", " " >>, << "-" >>, << "a", "b", "c" >>,
          << "R", "$", " ", "1", ".", "2", "3", "4", ",", "5", "6" >>,
          << "1", "2", "3", "4", ",", "5", "6" >>,
          << "R", "$", " ", "0", ",", "9", "9" >>,
          << "R", "$", " ", "1", "0", "0", ",", "5", "0" >>,
          << "1", ",", "2", "3", "4", ".", "5", "6" >>}

InitCurrency ==
    /\ accounts = << >>
    /\ initial = accounts
    /\ transactions = << >>
    /\ today = 1
    /\ pc = [s \in Sessions |-> "idle"]
    /\ call = [s \in Sessions |-> NoCall]
    /\ sender_account = [s \in Sessions |-> NoRow]
    /\ receiver_account = [s \in Sessions |-> NoRow]
    /\ transaction = [s \in Sessions |-> NoTransaction]
    /\ account = [s \in Sessions |-> NoRow]
    /\ response = "none"
    /\ argument \in {AmountArgument(d) : d \in CurrencyAmounts \cup FineAmounts}
                        \cup {TextArgument(t) : t \in CurrencyTexts}
    /\ result = NoResult

handlers == << accounts, transactions, today, pc, call, sender_account,
               receiver_account, transaction, account, response, initial >>

\* format_currency_brl is called on the amount.
Format ==
    /\ result = NoResult
    /\ argument.kind = "amount"
    /\ argument.amount \in CurrencyAmounts
    /\ result' = [op |-> "format", input |-> argument.amount,
                  out |-> format_currency_brl(argument.amount)]
    /\ UNCHANGED << handlers, argument >>

\* parse_currency_brl is called on the text format_currency_brl gave.
ParseFormatted ==
    /\ result.op = "format"
    /\ result' = [op |-> "parse", input |-> result.out,
                  out |-> parse_currency_brl(result.out)]
    /\ UNCHANGED << handlers, argument >>

\* parse_currency_brl is called on the text.
Parse ==
    /\ result = NoResult
    /\ argument.kind = "text"
    /\ result' = [op |-> "parse", input |-> argument.text,
                  out |-> parse_currency_brl(argument.text)]
    /\ UNCHANGED << handlers, argument >>

\* validate_currency_amount is called on the amount or the text.
Validate ==
    /\ result = NoResult
    /\ result' = [op |-> "validate", input |-> argument,
                  out |-> validate_currency_amount(argument)]
    /\ UNCHANGED << handlers, argument >>

NextCurrency ==
    \/ Format
    \/ ParseFormatted
    \/ Parse
    \/ Validate

SpecCurrency == InitCurrency /\ [][NextCurrency]_vars

\* The amounts of the transfer requests before the schema has validated them.
RequestAmounts ==
    {Dec(30000, 0 - 2), Dec(30050, 0 - 2), Dec(3005, 0 - 1), Dec(300, 0),
     Dec(60000, 0 - 2), Dec(1, 0 - 2),
     Dec(0, 0 - 2), Dec(0, 0), Dec(0 - 30000, 0 - 2), Dec(0 - 1, 0),
     Dec(300555, 0 - 3), Dec(300000, 0 - 3), Dec(1, 0 - 3), Dec(0 - 1, 0 - 3)}

\* A request arrives at POST /instant with the amount of the scenario: the
\* schema's amount validator, then the handler with the validated request.
SubmitTransfer(s, id, u, rcp) ==
    /\ pc[s] = "idle"
    /\ IF validate_amount(argument.amount).raised # ""
       THEN /\ Reject(s, "InvalidAmount")
            /\ UNCHANGED << today, initial, argument, result >>
       ELSE ValidateSender(s, Call(id, u, TransferCreate(Centavos(argument.amount), rcp)))

InitAmounts ==
    /\ accounts = FundedAccounts
    /\ initial = accounts
    /\ transactions = << >>
    /\ today = 1
    /\ pc = [s \in Sessions |-> "idle"]
    /\ call = [s \in Sessions |-> NoCall]
    /\ sender_account = [s \in Sessions |-> NoRow]
    /\ receiver_account = [s \in Sessions |-> NoRow]
    /\ transaction = [s \in Sessions |-> NoTransaction]
    /\ account = [s \in Sessions |-> NoRow]
    /\ response = "none"
    /\ argument \in {AmountArgument(d) : d \in RequestAmounts}
    /\ result = NoResult

\* Transfer requests with the amount of the scenario on the funded accounts,
\* served one at a time by one worker, and the amount check of the utilities.
NextAmounts ==
    \/ \E id \in DOMAIN FundedAccounts, u \in Users :
          \E rcp \in {Recipient(0, NoKey, "Ana", "001", "12345678"),
                       Recipient(2, NoKey, "", "", "")} :
              Quiet /\ SubmitTransfer(Worker, id, u, rcp)
    \/ \E s \in Sessions : Step(s)
    \/ Quiet /\ Validate

SpecAmounts == InitAmounts /\ [][NextAmounts]_vars

\* ------------------------------------------------------------ identifiers

\* The greatest last digit of the bases of the dense ranges of identifiers.
MaxLastDigit == 3

\* Inputs of the validators: a text, and a key type for validate_pix_key.
IdArgument(kind, t) == [kind |-> kind, text |-> t]
KeyArgument(t, key_type) == [kind |-> "key", text |-> t, key_type |-> key_type]

\* Eleven digits: a base of nine digits with every pair of check digits.
CpfRange ==
    {<< "1", "1", "1", "4", "4", "4", "7", "7" >> \o << DigitChar(x), c1, c2 >> :
        x \in 0..MaxLastDigit, c1 \in DigitChars, c2 \in DigitChars}

\* Fourteen digits: a base of twelve digits with every pair of check digits.
CnpjRange ==
    {<< "1", "1", "2", "2", "2", "3", "3", "3", "0", "0", "5" >>
        \o << DigitChar(x), c1, c2 >> :
        x \in 0..MaxLastDigit, c1 \in DigitChars, c2 \in DigitChars}

\* Texts for validate_cpf: those of tests/test_utils.py, formatted, short, long, empty.
CpfTexts ==
    {<< "1", "1", "1", "4", "4", "4", "7", "7", "7", "3", "5" >>,
     << "1", "1", "1", ".", "4", "4", "4", ".", "7", "7", "7", "-", "3", "5" >>,
     << "5", "2", "9", "9", "8", "2", "2", "4", "7", "2", "5" >>,
     << "1", "2", "3", "4", "5", "6", "7", "8", "9", "0", "1" >>,
     << "1", "1", "1", "1", "1", "1", "1", "1", "1", "1", "1" >>,
     << "1", "1", "1", ".", "1", "1", "1", ".", "1", "1", "1", "-", "1", "1" >>,
     << "0", "0", "0", "0", "0", "0", "0", "0", "0", "0", "0" >>,
     << "1", "2", "3", "4", "5", "6", "7", "8", "9" >>,
     << "1", "1", "1", "4", "4", "4", "7", "7", "7", "3", "5", "0" >>,
     << "a", "b", "c" >>,
     << "1", "1", "1", "4", "4", "4", "7", "7", "7", "3", "5", "\n" >>,
     << >>}

\* Texts for validate_cnpj: those of tests/test_utils.py, formatted, short, long, empty.
CnpjTexts ==
    {<< "1", "1", "2", "2", "2", "3", "3", "3", "0", "0", "0", "1", "8", "1" >>,
     << "1", "1", ".", "2", "2", "2", ".", "3", "3", "3", "/", "0", "0", "0", "1", "-", "8", "1" >>,
     << "1", "2", "3", "4", "5", "6", "7", "8", "0", "0", "0", "1", "0", "0" >>,
     << "1", "1", "1", "1", "1", "1", "1", "1", "1", "1", "1", "1", "1", "1" >>,
     << "1", "2", "3", "4", "5", "6", "7", "8", "9" >>,
     << "1", "1", "2", "2", "2", "3", "3", "3", "0", "0", "0", "1", "8", "1", "0" >>,
     << "a", "b", "c" >>,
     << >>}

\* Keys for validate_pix_key: phone numbers, UUIDs, identifiers, an e-mail address and malformed ones.
KeyTexts ==
    {<< "+", "5", "5", "1", "1", "9", "9", "9", "9", "9", "9", "9", "9", "9" >>,
     << "+", "5", "5", "1", "1", "9", "9", "9", "9", "9", "9", "9", "9" >>,
     << "+", "5", "5", "1", "1", "9", "9", "9", "9", "9", "9", "9" >>,
     << "+", "5", "5", "1", "1", "9", "9", "9", "9", "9", "9", "9", "9", "9", "9" >>,
     << "5", "5", "1", "1", "9", "9", "9", "9", "9", "9", "9", "9", "9" >>,
     << "+", "5", "5", " ", "1", "1", "9", "9", "9", "9", "9", "9", "9", "9", "9" >>,
     << "+", "5", "5", "1", "1", "9", "9", "9", "9", "9", "9", "9", "9", "9", "\n" >>,
     << "1", "2", "3", "e", "4", "5", "6", "7", "-", "e", "8", "9", "b", "-", "1", "2", "d", "3", "-", "a", "4", "5", "6", "-", "4", "2", "6", "6", "1", "4", "1", "7", "4", "0", "0", "0" >>,
     << "1", "2", "3", "E", "4", "5", "6", "7", "-", "E", "8", "9", "B", "-", "1", "2", "D", "3", "-", "A", "4", "5", "6", "-", "4", "2", "6", "6", "1", "4", "1", "7", "4", "0", "0", "0" >>,
     << "1", "2", "3", "e", "4", "5", "6", "7", "e", "8", "9", "b", "-", "1", "2", "d", "3", "-", "a", "4", "5", "6", "-", "4", "2", "6", "6", "1", "4", "1", "7", "4", "0", "0", "0", "0" >>,
     << "1", "2", "3", "g", "4", "5", "6", "7", "-", "e", "8", "9", "b", "-", "1", "2", "d", "3", "-", "a", "4", "5", "6", "-", "4", "2", "6", "6", "1", "4", "1", "7", "4", "0", "0", "0" >>,
     << "1", "2", "3", "e", "4", "5", "6", "7", "-", "e", "8", "9", "b", "-", "1", "2", "d", "3", "-", "a", "4", "5", "6", "-", "4", "2", "6", "6", "1", "4", "1", "7", "4", "0", "0", "0", "\n" >>,
     << "1", "1", "1", "4", "4", "4", "7", "7", "7", "3", "5" >>,
     << "1", "2", "3", "4", "5", "6", "7", "8", "9", "0", "1" >>,
     << "1", "1", "2", "2", "2", "3", "3", "3", "0", "0", "0", "1", "8", "1" >>,
     << "1", "2", "3", "4", "5", "6", "7", "8", "0", "0", "0", "1", "0", "0" >>,
     << "a", "@", "b", ".", "c", "o" >>,
     << "a", "b", "c" >>,
     << >>}

\* The key types of the requests: the five of the dispatch, none, and others.
RequestKeyTypes == KeyTypes \cup {"", "CPF", "iban"}

InitValidators ==
    /\ accounts = << >>
    /\ initial = accounts
    /\ transactions = << >>
    /\ today = 1
    /\ pc = [s \in Sessions |-> "idle"]
    /\ call = [s \in Sessions |-> NoCall]
    /\ sender_account = [s \in Sessions |-> NoRow]
    /\ receiver_account = [s \in Sessions |-> NoRow]
    /\ transaction = [s \in Sessions |-> NoTransaction]
    /\ account = [s \in Sessions |-> NoRow]
    /\ response = "none"
    /\ argument \in {IdArgument("cpf", t) : t \in CpfRange \cup CpfTexts}
                    \cup {IdArgument("cnpj", t) : t \in CnpjRange \cup CnpjTexts}
                    \cup {KeyArgument(t, ty) : t \in KeyTexts, ty \in RequestKeyTypes}
    /\ result = NoResult

\* validate_cpf is called on the text.
ValidateCpf ==
    /\ result = NoResult
    /\ argument.kind = "cpf"
    /\ result' = [op |-> "validate_cpf", input |-> argument.text,
                  out |-> validate_cpf(argument.text)]
    /\ UNCHANGED << handlers, argument >>

\* validate_cnpj is called on the text.
ValidateCnpj ==
    /\ result = NoResult
    /\ argument.kind = "cnpj"
    /\ result' = [op |-> "validate_cnpj", input |-> argument.text,
                  out |-> validate_cnpj(argument.text)]
    /\ UNCHANGED << handlers, argument >>

\* validate_pix_key is called on the key and the key type.
ValidatePixKey ==
    /\ result = NoResult
    /\ argument.kind = "key"
    /\ result' = [op |-> "validate_pix_key", input |-> argument,
                  out |-> validate_pix_key(argument.text, argument.key_type)]
    /\ UNCHANGED << handlers, argument >>

NextValidators ==
    \/ ValidateCpf
    \/ ValidateCnpj
    \/ ValidatePixKey

SpecValidators == InitValidators /\ [][NextValidators]_vars

\* ------------------------------------------------------------------ reads

\* One call of get_transfer_status or get_transaction.
GetCall(tid, u) == [transaction_id |-> tid, current_user |-> u]
GetCalls == {GetCall(tid, u) : tid \in 1..(MaxTx + 1), u \in Users}

\* One call of get_transactions; status "" stands for no status filter.  The
\* requests give no dates.
ListCall(u, status, offset, limit) ==
    [current_user |-> u, status |-> status, offset |-> offset, limit |-> limit]
ListCalls ==
    {ListCall(u, st, 0, 50) : u \in Users, st \in {"", "completed", "processing"}}
    \cup {ListCall(u, "", 1, 1) : u \in Users}

\* Mutant: the queries have no filter on the sender and the receiver.
VisibleTo_Anyone(row, u) == TRUE

\* (Transaction.sender_id == current_user.id) | (Transaction.receiver_id == current_user.id)
VisibleTo(row, u) == row.sender_id = u \/ row.receiver_id = u

\* What GET /transfers/{transaction_id} and GET /transactions/{transaction_id}
\* answer on the table txs.
get_transaction(txs, tid, u) ==
    IF tid \in DOMAIN txs /\ VisibleTo(txs[tid], u)
    THEN [detail |-> "OK", body |-> [id |-> tid] @@ txs[tid]]
    ELSE [detail |-> "TransactionNotFound"]

\* The rows the query of get_transactions selects on the table txs.
Selected(txs, c) ==
    {tid \in DOMAIN txs :
        /\ VisibleTo(txs[tid], c.current_user)
        /\ c.status # "" => txs[tid].status = c.status}

\* order_by(desc(Transaction.created_at)): the orders of the rows S of txs the
\* database may give, newest first.
NewestFirst(txs, S) ==
    {order \in [1..Cardinality(S) -> S] :
        /\ \A i, j \in DOMAIN order : i # j => order[i] # order[j]
        /\ \A i, j \in DOMAIN order :
              i < j => txs[order[i]].created_at >= txs[order[j]].created_at}

\* query.offset(offset).limit(limit).all()
Page(order, offset, limit) ==
    SubSeq(order, offset + 1,
           IF offset + limit < Len(order) THEN offset + limit ELSE Len(order))

\* A request arrives at GET /transfers/{transaction_id}.
GetTransferStatus(s, c) ==
    /\ pc[s] = "idle"
    /\ result' = [op |-> "get_transfer_status", input |-> c,
                  out |-> get_transaction(transactions, c.transaction_id, c.current_user)]
    /\ UNCHANGED << handlers, argument >>

\* A request arrives at GET /transactions/{transaction_id}.
GetTransaction(s, c) ==
    /\ pc[s] = "idle"
    /\ result' = [op |-> "get_transaction", input |-> c,
                  out |-> get_transaction(transactions, c.transaction_id, c.current_user)]
    /\ UNCHANGED << handlers, argument >>

\* A request arrives at GET /transactions/.
GetTransactions(s, c) ==
    /\ pc[s] = "idle"
    /\ \E order \in NewestFirst(transactions, Selected(transactions, c)) :
          LET page == Page(order, c.offset, c.limit)
          IN result' = [op |-> "get_transactions", input |-> c,
                        out |-> [i \in DOMAIN page |->
                                    [id |-> page[i]] @@ transactions[page[i]]]]
    /\ UNCHANGED << handlers, argument >>

\* Transfer requests of both owners of the funded accounts: the first owner's
\* to another bank and to the second account, the second owner's to another
\* bank.
ReadTransferCalls ==
    FundedTransferCalls
    \cup {Call(2, 2, TransferCreate(30000, Recipient(0, NoKey, "Ana", "001", "12345678")))}

\* Transfers of the funded accounts and reads of the stored transactions,
\* served one at a time by one worker.
NextReads ==
    \/ \E c \in ReadTransferCalls : Quiet /\ ValidateSender(Worker, c)
    \/ \E s \in Sessions : Step(s)
    \/ \E c \in GetCalls : Quiet /\ GetTransferStatus(Worker, c)
    \/ \E c \in GetCalls : Quiet /\ GetTransaction(Worker, c)
    \/ \E c \in ListCalls : Quiet /\ GetTransactions(Worker, c)
    \/ Quiet /\ Tick

SpecReads == InitUpdates /\ [][NextReads]_vars

\* ------------------------------------------------------------- properties

\* Sum of the amounts of the rows of txs at the indices in S.
RECURSIVE SumOver(_, _)
SumOver(txs, S) ==
    IF S = {} THEN 0
    ELSE LET i == CHOOSE j \in S : TRUE
         IN txs[i].amount + SumOver(txs, S \ {i})

Rows == 1..Len(transactions)

\* Stored transfers sent from account a, and stored transfers credited to a.
SentFrom(a) == {i \in Rows : transactions[i].sender_account_id = a}
CreditedTo(a) ==
    {i \in Rows : /\ transactions[i].receiver_account_id = a
                  /\ transactions[i].status = "completed"}

\* C1: two concurrent transfers of 600.00 from a balance of 1000.00.  An account
\* that started with 1000.00, received nothing and sent only transfers of 600.00
\* had at most one of them admitted, holds 1000.00 minus the admitted amount,
\* and is never negative.
C1_NoDoubleSpend ==
    \A a \in AcctIds :
       ( /\ initial[a].balance = 100000
         /\ CreditedTo(a) = {}
         /\ \A i \in SentFrom(a) : transactions[i].amount = 60000 )
       => /\ Cardinality(SentFrom(a)) <= 1
          /\ accounts[a].balance = 100000 - SumOver(transactions, SentFrom(a))
          /\ accounts[a].balance >= 0

\* Stored transfers of account a created on day d that are Completed.
CompletedOn(a, d) ==
    {i \in Rows : /\ transactions[i].sender_account_id = a
                  /\ transactions[i].created_at = d
                  /\ transactions[i].status = "completed"}

\* C2: under any interleaving, the Completed transfers of one account on one
\* day never add up to more than its daily limit.
C2_DailyLimitRespected ==
    \A a \in AcctIds : \A d \in Days :
       SumOver(transactions, CompletedOn(a, d)) <= accounts[a].daily_limit

\* Row i is a Completed internal transfer of amount x from a to b.
IsTransfer(i, a, b, x) ==
    /\ transactions[i].sender_account_id = a
    /\ transactions[i].receiver_account_id = b
    /\ transactions[i].amount = x
    /\ transactions[i].status = "completed"

\* C3: two internal transfers in opposite directions between a and b, each
\* covered by its sender's initial balance, leave the balances a serial
\* execution of the two leaves: a has paid x and received y, b the reverse.
C3_OppositeTransfersSerializable ==
    \A a, b \in AcctIds : \A x, y \in Amounts :
       ( /\ a # b
         /\ Len(transactions) = 2
         /\ \E i, j \in Rows : i # j /\ IsTransfer(i, a, b, x) /\ IsTransfer(j, b, a, y)
         /\ initial[a].balance >= x
         /\ initial[b].balance >= y )
       => /\ accounts[a].balance = initial[a].balance - x + y
          /\ accounts[b].balance = initial[b].balance + x - y

\* A step in which the handler of session s ends.
Returns(s) == pc[s] # "idle" /\ pc'[s] = "idle"

\* The last stored transaction.
LastTx == transactions[Len(transactions)]

\* C4: a request that passed the sender and balance checks is rejected with
\* DailyLimitExceeded exactly when the sender account's Completed transfers of
\* the current day plus the amount exceed its daily limit (reaching the limit is
\* admitted); and with balance 1000.00, limit 500.00 and receiver balance 0.00,
\* one stored internal transfer of 300.00 leaves 700.00 and 300.00.
C4_DailyLimitRule ==
    /\ [][\A s \in Sessions :
            (pc[s] = "daily" /\ pc'[s] # "daily") =>
               LET a == call[s].sender_account_id
                   over == SumOver(transactions, CompletedOn(a, today))
                              + call[s].transfer.amount > accounts[a].daily_limit
               IN (pc'[s] = "idle" /\ response' = "DailyLimitExceeded") <=> over]_vars
    /\ []( ( /\ initial[1].balance = 100000 /\ initial[1].daily_limit = 50000
             /\ initial[2].balance = 0
             /\ Len(transactions) = 1 /\ IsTransfer(1, 1, 2, 30000) )
           => accounts[1].balance = 70000 /\ accounts[2].balance = 30000 )

\* C4 witness: after the first transfer of 300.00 completed (700.00 / 300.00), a
\* second one of the same day was rejected with DailyLimitExceeded.
C4_Witness ==
    /\ response = "DailyLimitExceeded"
    /\ initial[1].daily_limit = 50000
    /\ Len(transactions) = 1 /\ IsTransfer(1, 1, 2, 30000)
    /\ transactions[1].created_at = today
    /\ accounts[1].balance = 70000 /\ accounts[2].balance = 30000

ValidationErrors ==
    {"AccountNotFound", "AccountUnavailable", "InsufficientBalance",
     "DailyLimitExceeded", "MissingRecipientInfo", "ReceiverNotFound",
     "ReceiverInactive"}

\* C5: a step that answers with a validation error changes no account and no
\* stored transaction; and a request of an available, owned sender account whose
\* amount exceeds the balance is answered InsufficientBalance.
C5_RejectionChangesNothing ==
    [][ /\ response' \in ValidationErrors => UNCHANGED << accounts, transactions >>
        /\ Quiet =>
             \A id \in AcctIds : \A m \in Amounts :
                ( /\ accounts[id].is_active
                  /\ ~accounts[id].is_blocked
                  /\ m > accounts[id].balance )
                => \A rcp \in RecipientChoices :
                      ValidateSender(Worker,
                                     Call(id, accounts[id].owner_id, TransferCreate(m, rcp)))
                      => /\ response' = "InsufficientBalance"
                         /\ UNCHANGED << accounts, transactions >> ]_vars

\* C5 witness: with 400.00 left after a transfer of 600.00, a further request
\* was rejected with InsufficientBalance.
C5_Witness ==
    /\ response = "InsufficientBalance"
    /\ Len(transactions) = 1
    /\ accounts[1].balance = 40000

\* The accounts table with amount moved from account sid to account rid (0: to
\* no account).
Moved(sid, rid, amount) ==
    [a \in AcctIds |->
       [accounts[a] EXCEPT !.balance = @ - (IF a = sid THEN amount ELSE 0)
                                         + (IF a = rid THEN amount ELSE 0)]]

\* The step stores exactly one more transaction.
StoresOne ==
    /\ Len(transactions') = Len(transactions) + 1
    /\ SubSeq(transactions', 1, Len(transactions)) = transactions

\* C6: the commit of an admitted internal transfer debits the sender by the
\* amount, credits the receiver by the amount and stores the transaction
\* Completed with processedAt and completedAt set, in one step.
C6_InternalTransfer ==
    [][\A s \in Sessions :
         ( /\ Returns(s) /\ response' = "OK"
           /\ call[s].transfer.receiver_account_id # 0 )
         => LET t == call[s].transfer
                tx == transactions'[Len(transactions')]
            IN /\ accounts' = Moved(call[s].sender_account_id, t.receiver_account_id,
                                    t.amount)
               /\ StoresOne
               /\ tx.status = "completed"
               /\ tx.amount = t.amount
               /\ tx.sender_account_id = call[s].sender_account_id
               /\ tx.receiver_account_id = t.receiver_account_id
               /\ tx.processed_at # 0
               /\ tx.completed_at # 0]_vars

\* C6 witness: the transfer of 300.00 from account 1 (1000.00) to account 2
\* (0.00) was admitted.
C6_Witness ==
    /\ response = "OK"
    /\ initial[2].balance = 0
    /\ Len(transactions) = 1 /\ IsTransfer(1, 1, 2, 30000)
    /\ accounts[1].balance = 70000 /\ accounts[2].balance = 30000
    /\ LastTx.processed_at # 0 /\ LastTx.completed_at # 0

\* C7: the commit of an admitted transfer without receiver account (payment key
\* or external recipient) debits the sender by the amount, changes no other
\* balance and stores the transaction Processing with processedAt set and
\* completedAt unset.
C7_ExternalTransfer ==
    [][\A s \in Sessions :
         ( /\ Returns(s) /\ response' = "OK"
           /\ call[s].transfer.receiver_account_id = 0 )
         => LET t == call[s].transfer
                tx == transactions'[Len(transactions')]
            IN /\ accounts' = Moved(call[s].sender_account_id, 0, t.amount)
               /\ StoresOne
               /\ tx.status = "processing"
               /\ tx.amount = t.amount
               /\ tx.sender_account_id = call[s].sender_account_id
               /\ tx.receiver_account_id = 0
               /\ tx.processed_at # 0
               /\ tx.completed_at = 0]_vars

\* C7 witness: a payment-key transfer and an external transfer of 300.00 from
\* account 1 were admitted.
C7_Witness ==
    /\ response = "OK"
    /\ Len(transactions) = 2
    /\ transactions[1].pix_key = ValidPhoneKey /\ transactions[1].status = "processing"
    /\ transactions[2].external_recipient_account # "" /\ transactions[2].pix_key = NoKey
    /\ transactions[2].status = "processing" /\ transactions[2].completed_at = 0
    /\ \A i \in Rows : transactions[i].sender_account_id = 1 /\ transactions[i].amount = 30000
    /\ accounts[1].balance = 40000
    /\ accounts[2] = initial[2] /\ accounts[3] = initial[3]

\* The recipient modes a request supplies: receiver account id, payment key,
\* full external triple.
ModesSupplied(t) ==
    (IF t.receiver_account_id # 0 THEN 1 ELSE 0)
    + (IF t.pix_key # NoKey THEN 1 ELSE 0)
    + (IF /\ t.external_recipient_name # ""
          /\ t.external_recipient_bank # ""
          /\ t.external_recipient_account # "" THEN 1 ELSE 0)

\* C8: a request that supplies no recipient mode or more than one never ends
\* admitted: it is answered with a validation error (MissingRecipientInfo once
\* the daily limit check has passed) and changes no account and no transaction.
C8_ExactlyOneModeRequired ==
    [][\A s \in Sessions :
         (Returns(s) /\ ModesSupplied(call[s].transfer) # 1)
         => /\ response' \in {"DailyLimitExceeded", "MissingRecipientInfo"}
            /\ UNCHANGED << accounts, transactions >>]_vars

\* C9: every stored transaction has exactly one recipient mode populated.
C9_OneModeStored ==
    \A i \in Rows : ModesSupplied(transactions[i]) = 1

\* C10: a stored payment-key transfer carries a key that passes validate_pix_key
\* for some key type.
C10_StoredKeysValid ==
    \A i \in Rows :
       (transactions[i].receiver_account_id = 0 /\ transactions[i].pix_key # NoKey)
       => \E key_type \in KeyTypes : PassesValidation(transactions[i].pix_key, key_type)

\* --------------------------------------------------- properties of cancel

\* Whether the cancel request c names a stored transaction the caller sent that
\* is pending or processing.
MayCancel(c) ==
    /\ c.transaction_id \in Rows
    /\ transactions[c.transaction_id].sender_id = c.current_user
    /\ transactions[c.transaction_id].status \in {"pending", "processing"}

\* C11: cancelTransfer changes state only when the transaction is Pending or
\* Processing and the requester is its sender: a cancel of a Completed, Failed
\* or Cancelled transaction, or by anyone but the sender (the receiver
\* included), is rejected at once and changes no balance and no status, and a
\* cancellation that commits acts on a transaction that is still Pending or
\* Processing.
C11_CancelRejected ==
    [][/\ Quiet =>
            \A c \in CancelCalls :
                (~MayCancel(c) /\ LoadTransaction(Worker, c)) =>
                    /\ response' \in {"TransactionNotFound", "InvalidStateTransition"}
                    /\ pc'[Worker] = "idle"
                    /\ UNCHANGED db
       /\ \A s \in Sessions :
            (pc[s] \in {"reverse", "cancelled"} /\ db' # db) =>
                /\ transaction[s].id \in Rows
                /\ transactions[transaction[s].id].status \in {"pending", "processing"}
      ]_vars

\* A cancel was refused for the status of the transaction: the table holds a
\* completed transfer to account 2's owner and a cancelled one.
C11_Witness ==
    /\ response = "InvalidStateTransition"
    /\ \E i \in Rows : transactions[i].status = "completed" /\ transactions[i].receiver_id = 2
    /\ \E i \in Rows : transactions[i].status = "cancelled"

\* The status changes the state machine allows.
StatusTransitions ==
    {<< "pending", "processing" >>, << "processing", "completed" >>,
     << "processing", "failed" >>, << "pending", "cancelled" >>,
     << "processing", "cancelled" >>}

\* C12: a stored transaction stays stored, and when its status changes the
\* change is one of Pending to Processing, Processing to Completed, Processing
\* to Failed, Pending or Processing to Cancelled; so a Completed, Failed or
\* Cancelled transaction never changes status again.
C12_StatusTransitions ==
    [][\A i \in Rows :
          /\ i \in DOMAIN transactions'
          /\ \/ transactions'[i].status = transactions[i].status
             \/ << transactions[i].status, transactions'[i].status >> \in StatusTransitions
      ]_vars

\* A transaction went from processing to cancelled next to a completed one, and
\* both were then named in refused cancel requests.
C12_Witness ==
    /\ Len(transactions) = MaxTx
    /\ transactions[1].status = "cancelled"
    /\ transactions[Len(transactions)].status = "completed"
    /\ response = "InvalidStateTransition"

NewRows == DOMAIN transactions' \ DOMAIN transactions

C15_FaultStoresFailed ==
    [][\A s \in Sessions :
          (pc[s] = "commit" /\ response' = "ExecutionFailed") =>
              /\ accounts' = accounts
              /\ Len(transactions') = Len(transactions) + 1
              /\ transactions'[Len(transactions')].status = "failed"
      ]_vars

\* C16: a call whose sender account is absent or owned by someone else returns
\* AccountNotFound, one whose sender account is inactive or blocked returns
\* AccountUnavailable, both without a change of the database; and an account's
\* balance goes down only by the commit of a transfer its active, unblocked
\* owner's account sends.
C16_SenderChecked ==
    [][/\ Quiet =>
            \A id \in AcctIds \cup {AbsentAcctId} : \A u \in Users :
                LET owned == id \in DOMAIN accounts /\ accounts[id].owner_id = u
                    usable == accounts[id].is_active /\ ~accounts[id].is_blocked
                IN (owned => ~usable) =>
                     \A c \in Calls :
                        (/\ c.sender_account_id = id
                         /\ c.current_user = u
                         /\ ValidateSender(Worker, c)) =>
                            /\ response' = IF owned THEN "AccountUnavailable"
                                           ELSE "AccountNotFound"
                            /\ pc'[Worker] = "idle"
                            /\ UNCHANGED db
       /\ \A a \in DOMAIN accounts :
            accounts'[a].balance < accounts[a].balance =>
                \E s \in Sessions :
                    /\ pc[s] = "commit"
                    /\ call[s].sender_account_id = a
                    /\ accounts[a].owner_id = call[s].current_user
                    /\ accounts[a].is_active
                    /\ ~accounts[a].is_blocked
                    /\ accounts'[a].balance = accounts[a].balance - call[s].transfer.amount
      ]_vars

\* Account 1 was debited by its owner's transfer, and a later call on an
\* account that is not the caller's was refused.
C16_Witness ==
    /\ response = "AccountNotFound"
    /\ Len(transactions) = 1
    /\ accounts[1].balance < initial[1].balance

\* C17: an internal transfer whose receiver account id names no account
\* returns ReceiverNotFound and one whose receiver account is inactive returns
\* ReceiverInactive, both without a change of the database; and an account's
\* balance goes up only by the commit of a transfer to it while it is active.
C17_ReceiverChecked ==
    [][/\ \A s \in Sessions :
            (pc[s] = "receiver" /\ pc'[s] # "receiver") =>
                LET rid == call[s].transfer.receiver_account_id
                IN /\ rid \notin DOMAIN accounts =>
                        response' = "ReceiverNotFound" /\ pc'[s] = "idle" /\ UNCHANGED db
                   /\ (rid \in DOMAIN accounts /\ ~accounts[rid].is_active) =>
                        response' = "ReceiverInactive" /\ pc'[s] = "idle" /\ UNCHANGED db
       /\ \A a \in DOMAIN accounts :
            accounts'[a].balance > accounts[a].balance =>
                \E s \in Sessions :
                    /\ pc[s] = "commit"
                    /\ call[s].transfer.receiver_account_id = a
                    /\ accounts[a].is_active
                    /\ accounts'[a].balance = accounts[a].balance + call[s].transfer.amount
      ]_vars

\* Account 2 was credited by a transfer, and a later transfer to the inactive
\* account 3 was refused.
C17_Witness ==
    /\ response = "ReceiverInactive"
    /\ Len(transactions) = 1
    /\ accounts[2].balance > initial[2].balance
    /\ accounts[1].balance + accounts[2].balance = initial[1].balance + initial[2].balance

\* ------------------------------------------------- properties of accounts

\* Account ids a request may name: the stored ones and one that names no row.
RequestIds == 1..(MaxAccounts + 1)

\* The accounts of the table that belong to u.
Own(u) == {id \in DOMAIN accounts : accounts[id].owner_id = u}

\* What an account that does not belong to the requester might be instead:
\* absent, or there with another key or another is_active flag.
ForeignChoices ==
    {[present |-> FALSE, pix_key |-> NoKey, is_active |-> FALSE]}
    \cup {[present |-> TRUE, pix_key |-> k, is_active |-> TRUE] :
            k \in {NoKey, ValidEmailKey, BadKey}}
    \cup {[present |-> TRUE, pix_key |-> NoKey, is_active |-> FALSE]}

\* The tables that differ from accounts only in accounts u does not own.
Variants(u) ==
    LET foreign == DOMAIN accounts \ Own(u)
    IN {[id \in Own(u) \cup {f \in foreign : ch[f].present} |->
            IF id \in foreign
            THEN [accounts[id] EXCEPT !.pix_key = ch[id].pix_key,
                                      !.is_active = ch[id].is_active]
            ELSE accounts[id]] : ch \in [foreign -> ForeignChoices]}

\* The key and limit changes the update requests ask for.
UpdateChoices == {c.account_update : c \in UpdateCalls}

\* A request of u that names an account u does not own, or no account, gets
\* the answer an absent account gets.
ForeignIsNotFound ==
    \A u \in Users : \A id \in RequestIds \ Own(u) :
        /\ get_account(accounts, id, u) = [detail |-> "AccountNotFound"]
        /\ get_account_balance(accounts, id, u) = [detail |-> "AccountNotFound"]
        /\ OwnedRow(accounts, id, u) = NoRow
        /\ \A upd \in UpdateChoices :
              update_account(accounts, id, u, upd) = [detail |-> "AccountNotFound"]

\* The handlers answer what get_account, get_account_balance and
\* update_account compute, and a request that names an account the caller does
\* not own changes nothing.
AnswersAsComputed ==
    /\ Quiet =>
         LET refused == /\ UNCHANGED db
                        /\ pc'[Worker] = "idle"
                        /\ response' = "AccountNotFound"
         IN /\ \A c \in ReadCalls :
                 \/ UNCHANGED db /\ (c.account_id \in Own(c.current_user) \/ refused)
                 \/ ~(GetAccount(Worker, c) \/ GetAccountBalance(Worker, c))
            /\ refused \/ \A c \in UpdateCalls :
                 c.account_id \notin Own(c.current_user) => ~UpdateAccount(Worker, c)
            /\ refused \/ \A c \in AccountTransferCalls :
                 c.sender_account_id \notin Own(c.current_user) => ~ValidateSender(Worker, c)
            /\ (pc'[Worker] = "idle" /\ response' \in {"AccountNotFound", "InvalidPixKey"}) =>
                 \A c \in UpdateCalls :
                    \/ response' = update_account(accounts, c.account_id, c.current_user,
                                                  c.account_update).detail
                    \/ ~UpdateAccount(Worker, c)
    /\ \A s \in Sessions :
         (pc[s] \in {"update_unique", "update"} /\ pc'[s] = "idle") =>
             response' = update_account(accounts, call[s].account_id, call[s].current_user,
                                        call[s].account_update).detail

\* C18 as stated: a request that names an account of another owner is answered
\* as one that names no account and changes nothing, and get account,
\* getBalance, the sender lookup and updateAccount answer a requester the same
\* in any two states that differ only in accounts the requester does not own.
C18_ForeignAccountsInvisible ==
    Quiet =>
        /\ ForeignIsNotFound
        /\ \A u \in Users : \A v \in Variants(u) : \A id \in RequestIds :
              /\ get_account(accounts, id, u) = get_account(v, id, u)
              /\ get_account_balance(accounts, id, u) = get_account_balance(v, id, u)
              /\ OwnedRow(accounts, id, u) = OwnedRow(v, id, u)
              /\ \A upd \in UpdateChoices :
                    update_account(accounts, id, u, upd) = update_account(v, id, u, upd)

\* C18 as amended: a request that names an account of another owner is
\* answered as one that names no account and changes nothing; get account,
\* getBalance and the sender lookup answer a requester the same in any two
\* states that differ only in accounts the requester does not own, and so does
\* updateAccount unless it answers DuplicatePixKey in one of them.
C18_ForeignAccountsHidden ==
    /\ [](Quiet =>
            /\ ForeignIsNotFound
            /\ \A u \in Users : \A v \in Variants(u) : \A id \in RequestIds :
                  /\ get_account(accounts, id, u) = get_account(v, id, u)
                  /\ get_account_balance(accounts, id, u) = get_account_balance(v, id, u)
                  /\ OwnedRow(accounts, id, u) = OwnedRow(v, id, u)
                  /\ \A upd \in UpdateChoices :
                        \/ update_account(accounts, id, u, upd) = update_account(v, id, u, upd)
                        \/ update_account(accounts, id, u, upd).detail = "DuplicatePixKey"
                        \/ update_account(v, id, u, upd).detail = "DuplicatePixKey")
    /\ [][AnswersAsComputed]_vars

\* A request named an account of the other user, who holds a key, and was
\* answered AccountNotFound.
C18_Witness ==
    /\ response = "AccountNotFound"
    /\ Len(accounts) = MaxAccounts
    /\ accounts[1].owner_id # accounts[Len(accounts)].owner_id
    /\ accounts[1].pix_key # NoKey

\* C19: no two accounts hold the same payment key.
C19_KeysDistinct ==
    \A a \in DOMAIN accounts : \A b \in DOMAIN accounts :
        (a # b /\ accounts[a].pix_key # NoKey) => accounts[a].pix_key # accounts[b].pix_key

\* Two accounts hold keys, and a write that raced with the registration of one
\* of them was refused by the unique constraint.
C19_Witness ==
    /\ Len(accounts) = MaxAccounts
    /\ \A a \in DOMAIN accounts : accounts[a].pix_key # NoKey
    /\ response = "InternalError"

\* The rows a step adds to the accounts table.
NewAccounts == DOMAIN accounts' \ DOMAIN accounts

\* C20: createAccount with a payment key creates the account if and only if
\* the key passes validate_pix_key for its key type, one of cpf, cnpj, email,
\* phone and random, and no account holds the key: an account stored with a key
\* has a key of its type's grammar, and a request with a valid, unregistered
\* key is not refused.
C20_CreateValidatesKey ==
    [][/\ \A i \in NewAccounts :
            accounts'[i].pix_key # NoKey =>
                PassesValidation(accounts'[i].pix_key, accounts'[i].pix_key_type)
       /\ Quiet =>
            \A c \in CreateCalls :
                (/\ c.account.pix_key_type \in KeyTypes
                 /\ PassesValidation(c.account.pix_key, c.account.pix_key_type)
                 /\ ~KeyRegistered(accounts, c.account.pix_key, 0)
                 /\ CreateAccount(Worker, c)) => pc'[Worker] # "idle"
      ]_vars

\* C21: an update whose patch carries a payment key is accepted only if the key
\* has the grammar of its key type and no other account holds it: a refused
\* update leaves the database as it was, and after an accepted one the stored
\* key passes validate_pix_key for the stored key type.
C21_UpdateRevalidatesKey ==
    [][\A s \in Sessions :
          (/\ pc[s] \in {"update_unique", "update"}
           /\ pc'[s] = "idle"
           /\ call[s].account_update.pix_key # NoKey) =>
              IF response' = "OK"
              THEN PassesValidation(accounts'[call[s].account_id].pix_key,
                                    accounts'[call[s].account_id].pix_key_type)
              ELSE UNCHANGED db
      ]_vars

\* The columns update_account has no assignment for.
FixedColumns ==
    {"id", "owner_id", "account_number", "account_type", "bank_code",
     "branch_code", "iban", "balance", "is_blocked"}

\* The columns of the fields the request upd gives.
GivenColumns(upd) ==
    {f \in {"pix_key", "pix_key_type", "daily_limit", "monthly_limit", "is_active"} :
        CASE f = "pix_key" -> upd.pix_key # NoKey
          [] f = "pix_key_type" -> upd.pix_key_type # ""
          [] f = "daily_limit" -> upd.daily_limit # 0
          [] f = "monthly_limit" -> upd.monthly_limit # 0
          [] f = "is_active" -> upd.is_active # {}}

\* C22: a step of update_account leaves every transaction and every other
\* account as they were, and changes on the updated account no column but those
\* of the fields its patch gives: balance, account number, bank code, branch
\* code, pseudo-IBAN, blocked flag and owner stay, and so does a patchable
\* column the patch does not give.
C22_UpdateFrame ==
    [][\A s \in Sessions :
          pc[s] \in {"update_unique", "update"} =>
              /\ transactions' = transactions
              /\ DOMAIN accounts' = DOMAIN accounts
              /\ \A id \in DOMAIN accounts :
                    \A f \in DOMAIN accounts[id] :
                        accounts'[id][f] # accounts[id][f] =>
                            /\ id = call[s].account_id
                            /\ f \notin FixedColumns
                            /\ f \in GivenColumns(call[s].account_update)
      ]_vars

\* An update changed the daily limit of the first account after a transfer was
\* stored, and another deactivated the second account.
C22_Witness ==
    /\ response = "OK"
    /\ Len(transactions) >= 1
    /\ accounts[1].daily_limit = 50000
    /\ accounts[1].monthly_limit = 10000000
    /\ accounts[1].balance = 70000
    /\ ~accounts[2].is_active
    /\ accounts[2].pix_key = ValidEmailKey

\* C23: the account number create_account settles on is a text of eight
\* digits that no stored account has, so the stored account numbers are
\* pairwise distinct after any sequence of createAccount calls; the account it
\* stores has balance 0.00, daily limit 10000.00, monthly limit 100000.00, is
\* active and is not blocked.
C23_CreateAssignsFreshNumber ==
    [][/\ \A s \in Sessions :
            (pc[s] = "idle" /\ pc'[s] \in {"unique", "add"}) =>
                /\ Len(account'[s].account_number) = AccountNumberLength
                /\ OnlyDigits(account'[s].account_number) = account'[s].account_number
                /\ \A id \in DOMAIN accounts :
                      accounts[id].account_number # account'[s].account_number
       /\ \A id \in DOMAIN accounts' \ DOMAIN accounts :
            /\ accounts'[id].balance = 0
            /\ accounts'[id].daily_limit = 1000000
            /\ accounts'[id].monthly_limit = 10000000
            /\ accounts'[id].is_active
            /\ ~accounts'[id].is_blocked
       /\ \A i, j \in DOMAIN accounts' :
            i # j => accounts'[i].account_number # accounts'[j].account_number
      ]_vars

\* Two accounts were created one after the other.
C23_Witness ==
    /\ response = "OK"
    /\ Len(accounts) = 2
    /\ accounts[1].account_number # accounts[2].account_number
    /\ accounts[2].balance = 0
    /\ accounts[2].is_active

\* ------------------------------------------------- properties of currency

\* C24: parsing the text that formatting gives for an amount of at most two
\* fraction digits returns that amount: parse(format(x)) = x for every such
\* amount of the range, 0.00, amounts below 1.00 and amounts with thousands
\* groups among them.
C24_ParseInvertsFormat ==
    (result.op = "parse" /\ argument.kind = "amount") =>
        /\ result.input = format_currency_brl(argument.amount)
        /\ result.out.raised = ""
        /\ SameNumber(result.out.value, argument.amount)

\* 1234.56 was formatted with a thousands group and parsed back.
C24_Witness ==
    /\ result.op = "parse"
    /\ argument.kind = "amount"
    /\ argument.amount = Dec(123456, 0 - 2)
    /\ result.input = << "R", "$", " ", "1", ".", "2", "3", "4", ",", "5", "6" >>
    /\ result.out = Returned(Dec(123456, 0 - 2))

\* Whether text writes cents centavos the Brazilian way: "R$ ", the integer
\* part in groups of three digits counted from the right with a dot between
\* the groups, a comma, and two fraction digits.
BrazilianText(cents, text) ==
    LET n == Len(text)
        body == SubSeq(text, 4, n - 3)
    IN /\ n >= 7
       /\ SubSeq(text, 1, 3) = << "R", "$", " " >>
       /\ text[n - 2] = ","
       /\ text[n - 1] = DigitChar((cents % 100) \div 10)
       /\ text[n] = DigitChar(cents % 10)
       /\ \A i \in 1..Len(body) :
            /\ body[i] \in DigitChars \cup {"."}
            /\ (body[i] = ".") <=> ((Len(body) - i + 1) % 4 = 0)
       /\ OnlyDigits(body) = Digits(cents \div 100)

\* C25: the text format gives for a non-negative amount of at most two fraction
\* digits is "R$ ", the integer part grouped in threes with dots, a comma and
\* exactly the two fraction digits of the amount: "R$ 1.234,56" for 1234.56,
\* "R$ 0,99" for 0.99 and "R$ 1.000.000,00" for 1000000.00.
C25_FormatIsBrazilian ==
    (result.op = "format" /\ result.input.coefficient >= 0) =>
        /\ BrazilianText(Centavos(result.input), result.out)
        /\ result.input = Dec(123456, 0 - 2) =>
              result.out = << "R", "$", " ", "1", ".", "2", "3", "4", ",", "5", "6" >>
        /\ result.input = Dec(99, 0 - 2) =>
              result.out = << "R", "$", " ", "0", ",", "9", "9" >>
        /\ result.input \in {Dec(100000000, 0 - 2), Dec(1000000, 0)} =>
              result.out = << "R", "$", " ", "1", ".", "0", "0", "0", ".",
                              "0", "0", "0", ",", "0", "0" >>

\* 1000000.00 was formatted with two thousands groups.
C25_Witness ==
    /\ result.op = "format"
    /\ result.input = Dec(100000000, 0 - 2)
    /\ Len(result.out) = 15
    /\ result.out[5] = "." /\ result.out[9] = "." /\ result.out[13] = ","

\* C26: parse raises no exception, and returns 0.00 for the empty text and for
\* a text without any digit (letters, only separators, only the marker).
C26_ParseNeverRaises ==
    (result.op = "parse" /\ argument.kind = "text") =>
        /\ result.out.raised = ""
        /\ (\A i \in 1..Len(argument.text) : argument.text[i] \notin DigitChars) =>
              result.out.value = Dec(0, 0 - 2)

\* The fraction digits a Decimal is written with.
FractionDigits(d) == IF d.exponent < 0 THEN 0 - d.exponent ELSE 0

\* x > 0 and at most two fraction digits.
ValidAmount(d) == d.coefficient > 0 /\ FractionDigits(d) <= 2

\* C27: validateAmount answers true exactly for an amount above zero with at
\* most two fraction digits, and a transfer request is refused with
\* InvalidAmount exactly when its amount is not such an amount; no transaction
\* is stored and no balance changes for such a request.
C27_AmountRule ==
    [][/\ (result.op = "none" /\ result'.op = "validate") =>
             result'.out = Returned(ValidAmount(argument.amount))
       /\ (Quiet /\ result' = result) =>
             IF ValidAmount(argument.amount)
             THEN response' # "InvalidAmount"
             ELSE /\ response' = "InvalidAmount"
                  /\ Quiet'
                  /\ UNCHANGED db
       /\ ~ValidAmount(argument.amount) =>
             accounts' = initial /\ transactions' = << >>
      ]_vars

\* A request of 300.555 was refused after validateAmount answered false.
C27_Witness ==
    /\ argument.amount = Dec(300555, 0 - 3)
    /\ result.op = "validate"
    /\ result.out = Returned(FALSE)
    /\ response = "InvalidAmount"
    /\ accounts = initial
    /\ transactions = << >>

\* ---------------------------------------------- properties of identifiers

\* The values of the digits of a text, in order.
DigitValues(text) ==
    LET digits == SelectSeq(text, LAMBDA c : c \in DigitChars)
    IN [i \in 1..Len(digits) |-> DigitVal(digits[i])]

RECURSIVE DotProduct(_, _)
DotProduct(d, w) ==
    IF w = << >> THEN 0 ELSE Head(d) * Head(w) + DotProduct(Tail(d), Tail(w))

\* The check digit of a sum: 0 if the remainder of the sum by 11 is below 2,
\* else 11 less the remainder.
Mod11Check(sum) == IF sum % 11 < 2 THEN 0 ELSE 11 - (sum % 11)

\* Whether the digits of text are n digits, not all the same, whose last two
\* are the checks of the digits before them under the weights wa and wb.
CheckedIdentifier(text, n, wa, wb) ==
    LET d == DigitValues(text)
    IN /\ Len(d) = n
       /\ \E i \in 1..n : d[i] # d[1]
       /\ d[n - 1] = Mod11Check(DotProduct(d, wa))
       /\ d[n] = Mod11Check(DotProduct(d, wb))

\* C28: validateNationalId11 is true exactly for a text whose digits are 11,
\* not all identical, with digit 9 the check of digits 0..8 under the weights
\* 10..2 and digit 10 the check of digits 0..9 under the weights 11..2; it is
\* false for the empty text, for another length and for 11 identical digits.
C28_Cpf ==
    result.op = "validate_cpf" =>
        /\ result.out =
              CheckedIdentifier(result.input, 11, << 10, 9, 8, 7, 6, 5, 4, 3, 2 >>,
                                << 11, 10, 9, 8, 7, 6, 5, 4, 3, 2 >>)
        /\ (result.input = << >> \/ Len(DigitValues(result.input)) # 11) => ~result.out
        /\ (\A i \in 1..Len(result.input) : result.input[i] = result.input[1]) =>
              ~result.out

\* A text of eleven digits whose first check digit is 0 for the remainder 0
\* was accepted.
C28_Witness ==
    /\ result.op = "validate_cpf"
    /\ result.input = << "1", "1", "1", "4", "4", "4", "7", "7", "3", "0", "1" >>
    /\ result.out

\* C29: validateNationalId14 is true exactly for a text whose digits are 14,
\* not all identical, with digit 12 the check of digits 0..11 under the weights
\* 5,4,3,2,9,8,7,6,5,4,3,2 and digit 13 the check of digits 0..12 under the
\* weights 6,5,4,3,2,9,8,7,6,5,4,3,2; it is false for the empty text, for
\* another length and for 14 identical digits.
C29_Cnpj ==
    result.op = "validate_cnpj" =>
        /\ result.out =
              CheckedIdentifier(result.input, 14,
                                << 5, 4, 3, 2, 9, 8, 7, 6, 5, 4, 3, 2 >>,
                                << 6, 5, 4, 3, 2, 9, 8, 7, 6, 5, 4, 3, 2 >>)
        /\ (result.input = << >> \/ Len(DigitValues(result.input)) # 14) => ~result.out
        /\ (\A i \in 1..Len(result.input) : result.input[i] = result.input[1]) =>
              ~result.out

\* A formatted text of fourteen digits was accepted.
C29_Witness ==
    /\ result.op = "validate_cnpj"
    /\ result.input = << "1", "1", ".", "2", "2", "2", ".", "3", "3", "3", "/",
                         "0", "0", "0", "1", "-", "8", "1" >>
    /\ result.out

\* "+55" and then 10 or 11 digits, and nothing else.
PhoneText(key) ==
    /\ Len(key) \in {13, 14}
    /\ SubSeq(key, 1, 3) = << "+", "5", "5" >>
    /\ \A i \in 4..Len(key) : key[i] \in DigitChars

\* 8-4-4-4-12 hexadecimal digits of either case with hyphens between.
UuidText(key) ==
    /\ Len(key) = 36
    /\ \A i \in 1..36 :
          IF i \in {9, 14, 19, 24} THEN key[i] = "-"
          ELSE key[i] \in DigitChars \cup {"a", "b", "c", "d", "e", "f",
                                           "A", "B", "C", "D", "E", "F"}

\* C30: validateKey answers for cpf and cnpj what validateNationalId11 and
\* validateNationalId14 answer for the key, true for phone exactly for "+55"
\* and 10 or 11 digits and nothing else, true for random exactly for a
\* hyphenated 8-4-4-4-12 hexadecimal text of either case, and false for an
\* empty key, an empty type and a type that is none of cpf, cnpj, email, phone
\* and random.
C30_KeyDispatch ==
    result.op = "validate_pix_key" =>
        LET key == result.input.text
            type == result.input.key_type
        IN /\ result.out.raised = ""
           /\ type = "cpf" => result.out.value = validate_cpf(key)
           /\ type = "cnpj" => result.out.value = validate_cnpj(key)
           /\ type = "phone" => result.out.value = PhoneText(key)
           /\ type = "random" => result.out.value = UuidText(key)
           /\ (key = << >> \/ type = "" \/ type \notin KeyTypes) => ~result.out.value

\* ------------------------------------------------------ properties of reads

\* Whether the requester u is the sender identity or the receiver identity of
\* the stored transaction tid.
PartyTo(tid, u) ==
    tid \in DOMAIN transactions
        /\ u \in {transactions[tid].sender_id, transactions[tid].receiver_id}

\* C31: getTransfer answers a requester who is neither the sender nor the
\* receiver of the transaction what it answers for an id that names no
\* transaction, and answers a party with the transaction; listTransactions
\* gives a requester only transactions the requester is the sender or the
\* receiver of.
C31_TransactionsOfOthersHidden ==
    [][result' # result =>
          LET c == result'.input
              out == result'.out
          IN IF result'.op \in {"get_transfer_status", "get_transaction"}
             THEN IF PartyTo(c.transaction_id, c.current_user)
                  THEN /\ out.detail = "OK"
                       /\ out.body.id = c.transaction_id
                  ELSE out = get_transaction(transactions, MaxTx + 1, c.current_user)
             ELSE \A i \in DOMAIN out : PartyTo(out[i].id, c.current_user)
      ]_vars

\* The second owner asked for a stored transaction the first owner sent to
\* another bank and was answered as for an absent one, while the table holds
\* a transaction the second owner received.
C31_Witness ==
    /\ result.op = "get_transfer_status"
    /\ result.input.current_user = 2
    /\ result.input.transaction_id \in DOMAIN transactions
    /\ transactions[result.input.transaction_id].sender_id = 1
    /\ transactions[result.input.transaction_id].receiver_id = 0
    /\ result.out = [detail |-> "TransactionNotFound"]
    /\ \E tid \in DOMAIN transactions : transactions[tid].receiver_id = 2

\* ------------------------------------------------- properties of the ledger

\* Sum of the balances of the rows of the table accts at the ids in S.
RECURSIVE TotalBalance(_, _)
TotalBalance(accts, S) ==
    IF S = {} THEN 0
    ELSE LET a == CHOOSE b \in S : TRUE
         IN accts[a].balance + TotalBalance(accts, S \ {a})

\* Stored transactions in status Processing.
InProcessing == {i \in Rows : transactions[i].status = "processing"}

\* C32: with requests served one at a time, after any sequence of
\* submitTransfer and cancelTransfer calls the sum of all balances plus the
\* sum of the amounts of the transactions in status Processing is the sum of
\* the initial balances, and storing an internal transfer leaves the sum of
\* all balances as it was.
C32_FundsConserved ==
    /\ [](TotalBalance(accounts, DOMAIN accounts)
             + SumOver(transactions, InProcessing)
           = TotalBalance(initial, DOMAIN initial))
    /\ [][(/\ Len(transactions') = Len(transactions) + 1
           /\ transactions'[Len(transactions')].receiver_account_id # 0)
          => TotalBalance(accounts', DOMAIN accounts')
               = TotalBalance(accounts, DOMAIN accounts)]_vars

\* A transfer to another bank waits in Processing beside a cancelled one whose
\* amount is back on the sender's account.
C32_Witness ==
    /\ Quiet
    /\ \E i \in Rows : transactions[i].status = "cancelled"
    /\ \E i \in Rows : transactions[i].status = "processing"
    /\ \E a \in DOMAIN accounts : accounts[a].balance < initial[a].balance

\* C33: with requests served one at a time and no balance negative at the
\* start, no balance is negative in any reachable state.
C33_BalancesNonNegative ==
    \A a \in DOMAIN accounts : accounts[a].balance >= 0

\* With 400.00 left after a transfer of 600.00 was stored, a further request
\* of the account was refused for its balance.
C33_Witness ==
    /\ response = "InsufficientBalance"
    /\ \E a \in DOMAIN accounts :
          /\ SentFrom(a) # {}
          /\ accounts[a].balance = 40000
          /\ \A b \in DOMAIN accounts \ {a} : accounts[b].balance >= 60000

\* Stored transactions that are not cancelled.
NotCancelled == {i \in Rows : transactions[i].status # "cancelled"}

\* C34: whatever the order or interleaving of the cancelTransfer calls on a
\* Processing transaction, the call that succeeds finds the transaction still
\* Processing in the table, so one call at most succeeds, and the balance of a
\* sender that received nothing is its initial balance minus the amounts of
\* its transfers that are not cancelled, so each amount is refunded once.
C34_RefundedOnce ==
    /\ [][\A s \in Sessions :
            (pc[s] = "cancelled" /\ pc'[s] = "idle" /\ response' = "Cancelled")
            => transactions[transaction[s].id].status = "processing"]_vars
    /\ [](\A a \in DOMAIN accounts :
            (Quiet /\ CreditedTo(a) = {})
            => accounts[a].balance
                 = initial[a].balance - SumOver(transactions, SentFrom(a) \cap NotCancelled))

\* Completed transfers of account a to itself created on day d.
SelfCompletedOn(a, d) ==
    {i \in CompletedOn(a, d) : transactions[i].receiver_account_id = a}

\* Sum of the amounts of the Completed rows of the table txs that account a
\* sent on day d.
CompletedTotal(txs, a, d) ==
    SumOver(txs, {i \in 1..Len(txs) : /\ txs[i].sender_account_id = a
                                      /\ txs[i].created_at = d
                                      /\ txs[i].status = "completed"})

\* Session s serves a request whose receiver account is the sender account.
SelfTransfer(s) ==
    /\ call[s].sender_account_id # 0
    /\ call[s].transfer.receiver_account_id = call[s].sender_account_id

\* C35: an internal submitTransfer whose receiver account is the sender account
\* itself passes the receiver checks once it passed the sender, balance and
\* limit checks; its commit leaves every balance as it was and stores one
\* Completed transaction from the account to itself, which raises the
\* account's Completed total of the day by the amount; and a request is refused
\* with DailyLimitExceeded when the account's same-day transfers to itself
\* plus the amount exceed the daily limit.
C35_SelfTransfer ==
    [][\A s \in Sessions :
         LET a == call[s].sender_account_id
             amount == call[s].transfer.amount
         IN /\ (SelfTransfer(s) /\ pc[s] = "receiver" /\ pc'[s] # "receiver")
                  => pc'[s] = "commit"
            /\ (SelfTransfer(s) /\ Returns(s) /\ response' = "OK")
                  => /\ accounts' = accounts
                     /\ StoresOne
                     /\ LastTx'.status = "completed"
                     /\ LastTx'.sender_account_id = a
                     /\ LastTx'.receiver_account_id = a
                     /\ LastTx'.amount = amount
                     /\ CompletedTotal(transactions', a, today)
                          = CompletedTotal(transactions, a, today) + amount
            /\ ( /\ pc[s] = "daily" /\ pc'[s] # "daily"
                 /\ SumOver(transactions, SelfCompletedOn(a, today)) + amount
                      > accounts[a].daily_limit )
                  => pc'[s] = "idle" /\ response' = "DailyLimitExceeded"]_vars

\* After account 2 (1000.00, limit 1000.00) sent 600.00 to itself and still
\* holds 1000.00, a further request of the account on the same day was refused
\* for the daily limit.
C35_Witness ==
    /\ response = "DailyLimitExceeded"
    /\ Len(transactions) = 1 /\ IsTransfer(1, 2, 2, 60000)
    /\ transactions[1].created_at = today
    /\ accounts[2].balance = 100000
    /\ accounts = initial

\* Every stored transaction is Completed exactly when it carries a receiver
\* account, and has completed_at set exactly when it is Completed.
CompletedIffInternal ==
    \A i \in Rows :
       /\ transactions[i].status = "completed" <=> transactions[i].receiver_account_id # 0
       /\ transactions[i].completed_at # 0 <=> transactions[i].status = "completed"

\* C36: in every state reached by submitTransfer and cancelTransfer calls a
\* stored transaction is Completed exactly when it carries a receiver account
\* and has completedAt set exactly when it is Completed, so no Processing or
\* Cancelled transaction carries a receiver account, and no cancelTransfer
\* that succeeds lowers the balance of any account.
C36_CancelNeverDebits ==
    /\ [](CompletedIffInternal)
    /\ [][\A s \in Sessions :
            (pc[s] = "cancelled" /\ pc'[s] = "idle" /\ response' = "Cancelled")
            => \A a \in DOMAIN accounts : accounts'[a].balance >= accounts[a].balance]_vars

====
